---- MODULE Spec2Model ----
(***************************************************************************)
(* Model of the mandate / credential / payment state machine of            *)
(* linebot-ap2: MandateService, PaymentService, CredentialProviderService  *)
(* and the payment tool layer that drives them.                            *)
(*                                                                         *)
(* Conventions                                                             *)
(*   - money is counted in cents (10.00 USD is 1000);                      *)
(*   - time is counted in minutes since process start (datetime.now());    *)
(*   - Python None is None (a str), NoneRec (an object), NoneId (an id)    *)
(*     or NoneInt (a number), by the type of the attribute that holds it;  *)
(*   - uuid4 / secrets values are fresh numbers taken from counters, with  *)
(*     the prefix the code gives them ("mandate_", "txn_", "tok_");        *)
(*   - an HMAC is modelled by the payload fields that distinguish it;      *)
(*   - a model attribute of enum type holds [kind, value]: pydantic models *)
(*     do not validate on assignment, so an attribute assigned a plain str *)
(*     holds the str, which compares equal to the enum member of the same  *)
(*     value (PaymentStatus is a str subclass) but has no .value.          *)
(***************************************************************************)
EXTENDS Integers, Sequences, FiniteSets, TLC

\* ------------------------------------------------------------------ bounds
MaxMandates == 1
MaxTime == 6
MaxNonces == 3
MaxTxns == 2
MaxTokens == 2
MaxCredentials == 6
MaxComparisons == 3
MaxRefunds == 2
MaxQuantity == 4
MaxFailures == 7
MaxClock == 90

\* ------------------------------------------------------- program constants
max_otp_attempts == 3
otp_expiry_minutes == 5
default_expires_in_minutes == 30
token_expires_in_minutes == 30
DemoAmount == 99999
failure_threshold == 5
success_threshold == 2
timeout_seconds == 30

None == "None"
NoneRec == [none |-> TRUE]
NoneId == <<"None", 0>>
NoneInt == 0 - 1

\* ------------------------------------------------------------------ inputs
Users == {"demo_user", "test_user"}
Currencies == {"USD", "TWD"}
OtpCodes == {"111111", "222222"}
MethodIds == {"card_001", "card_999"}
Amounts == {1000}
TokenCurrencies == {"USD", "EUR"}
TokenExpiresInChoices == {1, token_expires_in_minutes}
ExpiresInChoices == {1, default_expires_in_minutes}
TickMinutes == {3}
StatusInputs == {"pending", "completed", "failed", "cancelled"}
HostStatusInputs == {"failed", "cancelled"}
PaymentMethodNames == {"CARD"}
PaymentTokens == {"tok_test_123"}
RefundAmounts == {2 * DemoAmount, DemoAmount, 5000, 0 - 5000}
RegisterUsers == {"demo_user", "new_user"}
AddQuantities == {0 - 1, 0, 1, 2}
UpdateQuantities == {0 - 2, 0, 1, 3}
ProductIdInputs == {"prod_001", "prod_003", "prod_999"}
RegisterBrands == {"VISA"}
SupportedCurrencyInputs == {{}, {"TWD"}}
AcceptedTypeInputs == {{}, {"card"}, {"wallet"}}
PreferredBrands == {None, "", "visa", "MASTERCARD", "Amex"}

Widget == [product_id |-> "prod_001", name |-> "Widget", price |-> 1000, quantity |-> 1]
Gadget == [product_id |-> "prod_002", name |-> "Gadget", price |-> 250, quantity |-> 2]
Nothing == [product_id |-> "prod_003", name |-> "Nothing", price |-> 500, quantity |-> 0]

ItemLists == {<<>>, <<Widget>>, <<Widget, Gadget>>, <<Nothing>>}
CartContents == {<<>>, <<Widget>>, <<Widget, Gadget>>}

\* ------------------------------------------------------------- identifiers
MandateId(n) == <<"mandate", n>>
TxnId(n) == <<"txn", n>>
TokenId(n) == <<"tok", n>>
CredId(n) == <<"cred", n>>
FakeMandateId == MandateId(0)
RefundId(n) == <<"rfnd", n>>
PaymentMandateId(n) == <<"payment_mandate", n>>

\* ------------------------------------------------------------ PaymentStatus
PaymentStatus(v) == [kind |-> "PaymentStatus", value |-> v]
PlainStr(v) == [kind |-> "str", value |-> v]
HasValueAttr(s) == s.kind = "PaymentStatus"

demo_payment_methods == {"card_001", "card_002", "wallet_001"}
payment_methods(user_id) == IF user_id \in {"demo_user", "test_user"} THEN demo_payment_methods ELSE {}

VARIABLES
  now,
  active_mandates,
  mandate_signatures,
  nextMandate,
  nextNonce,
  otp_store,
  transactions,
  nextTxn,
  refunds,
  nextRefund,
  credentials,
  tokens,
  nextToken,
  result,
  calls,
  cart,
  circuit_breaker,
  time

vars == <<now, active_mandates, mandate_signatures, nextMandate, nextNonce,
          otp_store, transactions, nextTxn, refunds, nextRefund,
          credentials, tokens, nextToken, result, calls, cart, circuit_breaker, time>>

mandateVars == <<active_mandates, mandate_signatures, nextMandate, nextNonce>>
paymentVars == <<otp_store, transactions, nextTxn, refunds, nextRefund>>
credentialVars == <<credentials, tokens, nextToken>>
cartVars == <<cart>>
breakerVars == <<circuit_breaker, time>>

EmptyMap == [x \in {} |-> None]

\* the callers whose calls may be in flight at the same time, and a caller's position:
\* pc is the statement it stands before, otp_data the OTPData object its local variable
\* refers to, outcome what its last finished call returned, compared the number of
\* code comparisons it has performed
Callers == {"t1", "t2"}
Idle == [pc |-> "idle", op |-> None, id |-> NoneId, otp_code |-> None, user_id |-> None,
         otp_data |-> NoneRec, outcome |-> None, compared |-> 0]

Put(f, k, v) == [x \in (DOMAIN f) \cup {k} |-> IF x = k THEN v ELSE f[x]]
Del(f, k) == [x \in (DOMAIN f) \ {k} |-> f[x]]

\* what the last call returned (or raised): op and id name the call and the id it was about,
\* arg holds further arguments of the call and ret the object it returned
Res(op, id, status, error) ==
  [op |-> op, id |-> id, user_id |-> None, otp_input |-> None, status |-> status, error |-> error,
   transaction_id |-> NoneId, amount |-> NoneInt, currency |-> None,
   remaining_attempts |-> NoneInt, otp_code |-> None, arg |-> NoneRec, ret |-> NoneRec]

\* ------------------------------------------------------ models/payment.py
CartItem(item_data) ==
  [product_id |-> item_data.product_id,
   name |-> item_data.name,
   price |-> item_data.price,
   quantity |-> item_data.quantity,
   subtotal |-> item_data.price * item_data.quantity]

CartItemValid(item_data) == item_data.quantity >= 1

RECURSIVE calculate_total(_)
calculate_total(items) ==
  IF items = <<>> THEN 0
  ELSE calculate_total(SubSeq(items, 1, Len(items) - 1)) + items[Len(items)].subtotal

is_expired(x) == now > x.expires_at

is_merchant_signed(mandate) == mandate.merchant_signature # NoneRec
is_user_signed(mandate) == mandate.user_signature # NoneRec
is_fully_signed(mandate) == is_merchant_signed(mandate) /\ is_user_signed(mandate)

\* ------------------------------------------------- services/mandate_service.py
RECURSIVE AccumulateTotal(_, _, _)
AccumulateTotal(items, i, total_amount) ==
  IF i > Len(items) THEN total_amount
  ELSE AccumulateTotal(items, i + 1, total_amount + CartItem(items[i]).subtotal)

\* create_cart_mandate adding up the unit prices instead of the subtotals
NewCartMandate_unit_prices(mandate_id, user_id, items, currency, expires_in_minutes) ==
  [mandate_id |-> mandate_id,
   user_id |-> user_id,
   items |-> [i \in 1..Len(items) |-> CartItem(items[i])],
   total_amount |-> calculate_total([i \in 1..Len(items) |->
                                       [CartItem(items[i]) EXCEPT !.subtotal = items[i].price]]),
   currency |-> currency,
   payer_info |-> NoneRec,
   payee_info |-> NoneRec,
   merchant_signature |-> NoneRec,
   user_signature |-> NoneRec,
   expires_at |-> now + expires_in_minutes,
   status |-> PaymentStatus("pending")]

NewCartMandate(mandate_id, user_id, items, currency, expires_in_minutes) ==
  [mandate_id |-> mandate_id,
   user_id |-> user_id,
   items |-> [i \in 1..Len(items) |-> CartItem(items[i])],
   total_amount |-> AccumulateTotal(items, 1, 0),
   currency |-> currency,
   payer_info |-> NoneRec,
   payee_info |-> NoneRec,
   merchant_signature |-> NoneRec,
   user_signature |-> NoneRec,
   expires_at |-> now + expires_in_minutes,
   status |-> PaymentStatus("pending")]

create_cart_mandate(user_id, items, currency, expires_in_minutes) ==
  /\ nextMandate <= MaxMandates
  /\ IF \A i \in 1..Len(items) : CartItemValid(items[i])
     THEN /\ active_mandates' = Put(active_mandates, MandateId(nextMandate),
                 NewCartMandate(MandateId(nextMandate), user_id, items, currency, expires_in_minutes))
          /\ nextMandate' = nextMandate + 1
          /\ result' = [Res("create_cart_mandate", MandateId(nextMandate), "ok", None)
                          EXCEPT !.arg = [items |-> items]]
     ELSE /\ UNCHANGED <<active_mandates, nextMandate>>
          /\ result' = [Res("create_cart_mandate", NoneId, "raised", "ValidationError")
                          EXCEPT !.arg = [items |-> items]]
  /\ UNCHANGED <<now, cartVars, breakerVars, calls, mandate_signatures, nextNonce, paymentVars, credentialVars>>

MandateSignature(mandate_id, nonce) ==
  [mandate_id |-> mandate_id, algorithm |-> "HMAC-SHA256", nonce |-> nonce]

sign_mandate_eff(sigs, mandate_id, nonce) ==
  Put(sigs, mandate_id, MandateSignature(mandate_id, nonce))

MerchantSignature(mandate, merchant_id, nonce) ==
  [signer |-> "merchant", mandate_id |-> mandate.mandate_id, merchant_id |-> merchant_id,
   total_amount |-> mandate.total_amount, currency |-> mandate.currency,
   items_count |-> Len(mandate.items), nonce |-> nonce]

UserSignature(mandate, user_id, nonce) ==
  [signer |-> "user", mandate_id |-> mandate.mandate_id, user_id |-> user_id,
   total_amount |-> mandate.total_amount, currency |-> mandate.currency,
   merchant_signature |-> mandate.merchant_signature, nonce |-> nonce]

merchant_sign_mandate_eff(am, mandate_id, merchant_id, nonce) ==
  [am EXCEPT ![mandate_id] =
     [@ EXCEPT !.payee_info = [merchant_id |-> merchant_id],
               !.merchant_signature = MerchantSignature(am[mandate_id], merchant_id, nonce)]]

merchant_sign_mandate(mandate_id, merchant_id) ==
  /\ mandate_id \in DOMAIN active_mandates
  /\ nextNonce <= MaxNonces
  /\ active_mandates' = merchant_sign_mandate_eff(active_mandates, mandate_id, merchant_id, nextNonce)
  /\ nextNonce' = nextNonce + 1
  /\ result' = Res("merchant_sign_mandate", mandate_id, "ok", None)
  /\ UNCHANGED <<now, cartVars, breakerVars, calls, mandate_signatures, nextMandate, paymentVars, credentialVars>>

\* user_sign_mandate without the is_merchant_signed() precondition
user_sign_mandate_eff_unordered(am, mandate_id, user_id, nonce) ==
  IF mandate_id \notin DOMAIN am THEN [am |-> am, raised |-> TRUE, error |-> "not found"]
  ELSE IF am[mandate_id].user_id # user_id
       THEN [am |-> am, raised |-> TRUE, error |-> "User ID mismatch"]
  ELSE [am |-> [am EXCEPT ![mandate_id] =
                  [@ EXCEPT !.payer_info = [user_id |-> user_id, verified |-> TRUE],
                            !.user_signature = UserSignature(am[mandate_id], user_id, nonce)]],
        raised |-> FALSE, error |-> None]

\* user_sign_mandate that signs for whoever calls
user_sign_mandate_eff_any_user(am, mandate_id, user_id, nonce) ==
  IF mandate_id \notin DOMAIN am THEN [am |-> am, raised |-> TRUE, error |-> "not found"]
  ELSE IF ~is_merchant_signed(am[mandate_id])
       THEN [am |-> am, raised |-> TRUE, error |-> "not merchant-signed"]
  ELSE [am |-> [am EXCEPT ![mandate_id] =
                  [@ EXCEPT !.payer_info = [user_id |-> user_id, verified |-> TRUE],
                            !.user_signature = UserSignature(am[mandate_id], user_id, nonce)]],
        raised |-> FALSE, error |-> None]

\* [am, raised]: the mandate store after the call, and whether ValueError was raised
user_sign_mandate_eff(am, mandate_id, user_id, nonce) ==
  IF mandate_id \notin DOMAIN am THEN [am |-> am, raised |-> TRUE, error |-> "not found"]
  ELSE IF ~is_merchant_signed(am[mandate_id])
       THEN [am |-> am, raised |-> TRUE, error |-> "not merchant-signed"]
  ELSE IF am[mandate_id].user_id # user_id
       THEN [am |-> am, raised |-> TRUE, error |-> "User ID mismatch"]
  ELSE [am |-> [am EXCEPT ![mandate_id] =
                  [@ EXCEPT !.payer_info = [user_id |-> user_id, verified |-> TRUE],
                            !.user_signature = UserSignature(am[mandate_id], user_id, nonce)]],
        raised |-> FALSE, error |-> None]

user_sign_mandate(mandate_id, user_id) ==
  LET r == user_sign_mandate_eff(active_mandates, mandate_id, user_id, nextNonce) IN
  /\ r.raised \/ nextNonce <= MaxNonces
  /\ active_mandates' = r.am
  /\ nextNonce' = IF r.raised THEN nextNonce ELSE nextNonce + 1
  /\ result' = [Res("user_sign_mandate", mandate_id,
                    IF r.raised THEN "raised" ELSE "ok", r.error)
                  EXCEPT !.user_id = user_id]
  /\ UNCHANGED <<now, cartVars, breakerVars, calls, mandate_signatures, nextMandate, paymentVars, credentialVars>>

PaymentMandate(payment_mandate_id, cart_mandate, payment_method_name, payment_token) ==
  [payment_mandate_id |-> payment_mandate_id,
   type |-> "payment_mandate",
   cart_mandate_id |-> cart_mandate.mandate_id,
   intent_mandate_id |-> None,
   agent_presence |-> TRUE,
   transaction_modality |-> "human_present",
   payment_mandate_contents |->
     [payment_mandate_id |-> payment_mandate_id,
      payment_details_id |-> cart_mandate.mandate_id,
      payment_details_total |-> [currency |-> cart_mandate.currency,
                                 value |-> cart_mandate.total_amount],
      payment_response |-> [method_name |-> payment_method_name, token |-> payment_token]]]

\* create_payment_mandate that is content with the merchant's signature
create_payment_mandate_ret_merchant_only(cart_mandate, payment_method_name, payment_token, n) ==
  IF ~is_merchant_signed(cart_mandate)
  THEN [raised |-> TRUE, error |-> "not fully signed", ret |-> NoneRec]
  ELSE [raised |-> FALSE, error |-> None,
        ret |-> PaymentMandate(PaymentMandateId(n), cart_mandate, payment_method_name,
                               payment_token)]

\* [raised, error, ret]: ret is the PaymentMandate returned
create_payment_mandate_ret(cart_mandate, payment_method_name, payment_token, n) ==
  IF ~is_fully_signed(cart_mandate)
  THEN [raised |-> TRUE, error |-> "not fully signed", ret |-> NoneRec]
  ELSE [raised |-> FALSE, error |-> None,
        ret |-> PaymentMandate(PaymentMandateId(n), cart_mandate, payment_method_name,
                               payment_token)]

\* the caller passes the CartMandate object it holds, here the one stored under mandate_id
create_payment_mandate(mandate_id, payment_method_name, payment_token) ==
  LET r == create_payment_mandate_ret(active_mandates[mandate_id], payment_method_name,
                                      payment_token, nextNonce)
  IN
  /\ mandate_id \in DOMAIN active_mandates
  /\ r.raised \/ nextNonce <= MaxNonces
  /\ nextNonce' = IF r.raised THEN nextNonce ELSE nextNonce + 1
  /\ result' = [Res("create_payment_mandate", mandate_id, IF r.raised THEN "raised" ELSE "ok",
                    r.error)
                  EXCEPT !.arg = [cart_mandate |-> active_mandates[mandate_id]],
                         !.ret = r.ret]
  /\ UNCHANGED <<now, cartVars, breakerVars, calls, active_mandates, mandate_signatures, nextMandate, paymentVars, credentialVars>>

update_mandate_status_eff(am, mandate_id, status) ==
  IF mandate_id \in DOMAIN am THEN [am EXCEPT ![mandate_id].status = status] ELSE am

update_mandate_status(mandate_id, status) ==
  /\ active_mandates' = update_mandate_status_eff(active_mandates, mandate_id, status)
  /\ result' = Res("update_mandate_status", mandate_id,
                   IF mandate_id \in DOMAIN active_mandates THEN "true" ELSE "false", None)
  /\ UNCHANGED <<now, cartVars, breakerVars, calls, mandate_signatures, nextMandate, nextNonce, paymentVars, credentialVars>>

\* [am, ret, raised]: raised is the AttributeError of status.value on a plain str
is_mandate_valid_eff(am, mandate_id) ==
  IF mandate_id \notin DOMAIN am THEN [am |-> am, ret |-> FALSE, raised |-> FALSE]
  ELSE IF ~HasValueAttr(am[mandate_id].status) THEN [am |-> am, ret |-> FALSE, raised |-> TRUE]
  ELSE IF is_expired(am[mandate_id])
       THEN [am |-> update_mandate_status_eff(am, mandate_id, PaymentStatus("expired")),
             ret |-> FALSE, raised |-> FALSE]
  ELSE [am |-> am, ret |-> am[mandate_id].status.value \in {"pending", "pending_otp"},
        raised |-> FALSE]

is_mandate_valid(mandate_id) ==
  LET r == is_mandate_valid_eff(active_mandates, mandate_id) IN
  /\ active_mandates' = r.am
  /\ result' = Res("is_mandate_valid", mandate_id,
                   IF r.raised THEN "raised" ELSE IF r.ret THEN "true" ELSE "false",
                   IF r.raised THEN "AttributeError" ELSE None)
  /\ UNCHANGED <<now, cartVars, breakerVars, calls, mandate_signatures, nextMandate, nextNonce, paymentVars, credentialVars>>

\* [am, ret, raised]: ret is the dict returned, {"error": ...} for an unknown id
get_mandate_details_eff(am, sigs, mandate_id) ==
  IF mandate_id \notin DOMAIN am THEN [am |-> am, ret |-> [error |-> "Mandate not found"], raised |-> FALSE]
  ELSE IF ~HasValueAttr(am[mandate_id].status) THEN [am |-> am, ret |-> NoneRec, raised |-> TRUE]
  ELSE LET v == is_mandate_valid_eff(am, mandate_id) IN
       [am |-> v.am,
        ret |-> [id |-> mandate_id,
                 total_amount |-> am[mandate_id].total_amount,
                 status |-> am[mandate_id].status.value,
                 signed |-> mandate_id \in DOMAIN sigs,
                 valid |-> v.ret],
        raised |-> FALSE]

get_mandate_details(mandate_id) ==
  LET r == get_mandate_details_eff(active_mandates, mandate_signatures, mandate_id) IN
  /\ active_mandates' = r.am
  /\ result' = Res("get_mandate_details", mandate_id,
                   IF r.raised THEN "raised"
                   ELSE IF "error" \in DOMAIN r.ret THEN "error" ELSE "ok",
                   IF r.raised THEN "AttributeError"
                   ELSE IF "error" \in DOMAIN r.ret THEN "Mandate not found" ELSE None)
  /\ UNCHANGED <<now, cartVars, breakerVars, calls, mandate_signatures, nextMandate, nextNonce, paymentVars, credentialVars>>

\* the loop of get_user_mandates over active_mandates.values(), in insertion order,
\* from mandate number n on; [am, count, raised]
RECURSIVE get_user_mandates_eff(_, _, _, _, _)
get_user_mandates_eff(am, user_id, n, last, count) ==
  IF n > last THEN [am |-> am, count |-> count, raised |-> FALSE]
  ELSE IF MandateId(n) \notin DOMAIN am \/ am[MandateId(n)].user_id # user_id
       THEN get_user_mandates_eff(am, user_id, n + 1, last, count)
  ELSE LET v == is_mandate_valid_eff(am, MandateId(n)) IN
       IF v.raised THEN [am |-> am, count |-> count, raised |-> TRUE]
       ELSE get_user_mandates_eff(v.am, user_id, n + 1, last,
                                  IF v.ret THEN count + 1 ELSE count)

get_user_mandates(user_id) ==
  LET r == get_user_mandates_eff(active_mandates, user_id, 1, nextMandate - 1, 0) IN
  /\ active_mandates' = r.am
  /\ result' = [Res("get_user_mandates", NoneId,
                    IF r.raised THEN "raised" ELSE "ok",
                    IF r.raised THEN "AttributeError" ELSE None)
                  EXCEPT !.amount = r.count]
  /\ UNCHANGED <<now, cartVars, breakerVars, calls, mandate_signatures, nextMandate, nextNonce, paymentVars, credentialVars>>

create_signed_mandate(user_id, items, currency, expires_in_minutes) ==
  /\ nextMandate <= MaxMandates
  /\ IF \A i \in 1..Len(items) : CartItemValid(items[i])
     THEN /\ nextNonce <= MaxNonces
          /\ LET mandate_id == MandateId(nextMandate)
                 created == Put(active_mandates, mandate_id,
                                NewCartMandate(mandate_id, user_id, items, currency, expires_in_minutes))
                 sigs == sign_mandate_eff(mandate_signatures, mandate_id, nextNonce)
                 details == get_mandate_details_eff(created, sigs, mandate_id)
             IN /\ active_mandates' = details.am
                /\ mandate_signatures' = sigs
                /\ result' = Res("create_signed_mandate", mandate_id, "ok", None)
          /\ nextMandate' = nextMandate + 1
          /\ nextNonce' = nextNonce + 1
     ELSE /\ UNCHANGED <<active_mandates, mandate_signatures, nextMandate, nextNonce>>
          /\ result' = Res("create_signed_mandate", NoneId, "raised", "ValidationError")
  /\ UNCHANGED <<now, cartVars, breakerVars, calls, paymentVars, credentialVars>>

\* cleanup_expired_mandates that also sweeps the mandates that are no longer pending
cleanup_expired_mandates_eff_pending_only(am) ==
  [x \in {k \in DOMAIN am : ~is_expired(am[k]) /\ am[k].status.value = "pending"} |-> am[x]]

cleanup_expired_mandates_eff(am) ==
  [x \in {k \in DOMAIN am : ~is_expired(am[k])} |-> am[x]]

cleanup_expired_mandates ==
  LET expired_mandates == {k \in DOMAIN active_mandates : is_expired(active_mandates[k])} IN
  /\ active_mandates' = cleanup_expired_mandates_eff(active_mandates)
  /\ mandate_signatures' =
       [x \in (DOMAIN mandate_signatures) \ expired_mandates |-> mandate_signatures[x]]
  /\ result' = [Res("cleanup_expired_mandates", NoneId, "ok", None)
                  EXCEPT !.amount = Cardinality(expired_mandates)]
  /\ UNCHANGED <<now, cartVars, breakerVars, calls, nextMandate, nextNonce, paymentVars, credentialVars>>

\* ------------------------------------------------- services/payment_service.py
OTPData(otp, user_id, mandate_id, payment_method_id) ==
  [otp |-> otp,
   user_id |-> user_id,
   mandate_id |-> mandate_id,
   payment_method_id |-> payment_method_id,
   expires_at |-> now + otp_expiry_minutes,
   attempts |-> 0,
   max_attempts |-> max_otp_attempts]

is_blocked(otp_data) == otp_data.attempts >= otp_data.max_attempts

increment_attempts(otp_data) == [otp_data EXCEPT !.attempts = @ + 1]

\* initiate_payment that drops the pending record when the payment method is not found
initiate_payment_eff_drops_pending(store, mandate_id, payment_method_id, user_id, otp_code) ==
  IF payment_method_id \notin payment_methods(user_id)
  THEN [store |-> Del(store, mandate_id), raised |-> TRUE,
        error |-> "Payment initiation failed: Invalid payment method"]
  ELSE [store |-> Put(store, mandate_id,
                      OTPData(otp_code, user_id, mandate_id, payment_method_id)),
        raised |-> FALSE, error |-> None]

\* initiate_payment that carries the attempts of the record it replaces over
initiate_payment_eff_keep_attempts(store, mandate_id, payment_method_id, user_id, otp_code) ==
  IF payment_method_id \notin payment_methods(user_id)
  THEN [store |-> store, raised |-> TRUE, error |-> "Payment initiation failed: Invalid payment method"]
  ELSE [store |-> Put(store, mandate_id,
                      [OTPData(otp_code, user_id, mandate_id, payment_method_id)
                         EXCEPT !.attempts = IF mandate_id \in DOMAIN store
                                             THEN store[mandate_id].attempts ELSE 0]),
        raised |-> FALSE, error |-> None]

\* [store, raised, otp_code]: _generate_otp is random, otp_code is what it returned
initiate_payment_eff(store, mandate_id, payment_method_id, user_id, otp_code) ==
  IF payment_method_id \notin payment_methods(user_id)
  THEN [store |-> store, raised |-> TRUE, error |-> "Payment initiation failed: Invalid payment method"]
  ELSE [store |-> Put(store, mandate_id,
                      OTPData(otp_code, user_id, mandate_id, payment_method_id)),
        raised |-> FALSE, error |-> None]

initiate_payment(mandate_id, payment_method_id, user_id) ==
  \E otp_code \in OtpCodes :
    LET r == initiate_payment_eff(otp_store, mandate_id, payment_method_id, user_id, otp_code) IN
    /\ otp_store' = r.store
    /\ result' = IF r.raised
                 THEN [Res("initiate_payment", mandate_id, "raised", r.error)
                         EXCEPT !.user_id = user_id,
                                !.arg = [payment_method_id |-> payment_method_id]]
                 ELSE [Res("initiate_payment", mandate_id, "pending_otp", None)
                         EXCEPT !.user_id = user_id, !.otp_code = otp_code,
                                !.arg = [payment_method_id |-> payment_method_id]]
    /\ UNCHANGED <<now, cartVars, breakerVars, calls, mandateVars, transactions, nextTxn, refunds, nextRefund, credentialVars>>

Transaction(transaction_id, mandate_id, otp_data) ==
  [transaction_id |-> transaction_id,
   mandate_id |-> mandate_id,
   user_id |-> otp_data.user_id,
   amount |-> DemoAmount,
   currency |-> "USD",
   payment_method_id |-> otp_data.payment_method_id,
   status |-> PaymentStatus("processing")]

mark_completed(transaction) == [transaction EXCEPT !.status = PaymentStatus("completed")]

\* _process_payment without the mark_completed() call
process_payment_unmarked(txns, mandate_id, otp_data, n) ==
  LET transaction == Transaction(TxnId(n), mandate_id, otp_data) IN
  [txns |-> Put(txns, TxnId(n), transaction), transaction |-> transaction]

\* [txns, transaction]: the transaction store after the call, and the Transaction returned
process_payment(txns, mandate_id, otp_data, n) ==
  LET transaction == Transaction(TxnId(n), mandate_id, otp_data) IN
  [txns |-> Put(txns, TxnId(n), mark_completed(transaction)),
   transaction |-> mark_completed(transaction)]

\* verify_otp whose exhaustion test is remaining_attempts < 0
verify_otp_eff_off_by_one(store, txns, mandate_id, otp_code, user_id, n) ==
  LET fail(st, err) == [store |-> st, txns |-> txns, status |-> "raised", error |-> err,
                        transaction |-> NoneRec, remaining_attempts |-> NoneInt]
  IN
  IF mandate_id \notin DOMAIN store THEN fail(store, "Invalid mandate or OTP expired")
  ELSE LET otp_data == store[mandate_id] IN
  IF otp_data.user_id # user_id THEN fail(store, "Invalid user for this OTP")
  ELSE IF is_expired(otp_data) THEN fail(Del(store, mandate_id), "OTP has expired")
  ELSE IF is_blocked(otp_data)
       THEN fail(Del(store, mandate_id), "Too many failed attempts. OTP blocked.")
  ELSE LET counted == increment_attempts(otp_data) IN
  IF counted.otp = otp_code
  THEN LET p == process_payment(txns, mandate_id, counted, n) IN
       [store |-> Del(store, mandate_id), txns |-> p.txns, status |-> "completed",
        error |-> None, transaction |-> p.transaction, remaining_attempts |-> NoneInt]
  ELSE LET remaining_attempts == counted.max_attempts - counted.attempts IN
       IF remaining_attempts < 0
       THEN fail(Del(store, mandate_id), "Maximum OTP attempts exceeded")
       ELSE [store |-> [store EXCEPT ![mandate_id] = counted], txns |-> txns,
             status |-> "invalid_otp", error |-> "Invalid OTP code",
             transaction |-> NoneRec, remaining_attempts |-> remaining_attempts]

\* verify_otp that counts attempts but enforces no limit on them
verify_otp_eff_unlimited(store, txns, mandate_id, otp_code, user_id, n) ==
  LET fail(st, err) == [store |-> st, txns |-> txns, status |-> "raised", error |-> err,
                        transaction |-> NoneRec, remaining_attempts |-> NoneInt]
  IN
  IF mandate_id \notin DOMAIN store THEN fail(store, "Invalid mandate or OTP expired")
  ELSE LET otp_data == store[mandate_id] IN
  IF otp_data.user_id # user_id THEN fail(store, "Invalid user for this OTP")
  ELSE IF is_expired(otp_data) THEN fail(Del(store, mandate_id), "OTP has expired")
  ELSE LET counted == increment_attempts(otp_data) IN
  IF counted.otp = otp_code
  THEN LET p == process_payment(txns, mandate_id, counted, n) IN
       [store |-> Del(store, mandate_id), txns |-> p.txns, status |-> "completed",
        error |-> None, transaction |-> p.transaction, remaining_attempts |-> NoneInt]
  ELSE [store |-> [store EXCEPT ![mandate_id] = counted], txns |-> txns,
        status |-> "invalid_otp", error |-> "Invalid OTP code",
        transaction |-> NoneRec,
        remaining_attempts |-> counted.max_attempts - counted.attempts]

\* verify_otp that gives up once the counted attempts reach the limit, whatever the code
verify_otp_eff_last_attempt_lost(store, txns, mandate_id, otp_code, user_id, n) ==
  LET fail(st, err) == [store |-> st, txns |-> txns, status |-> "raised", error |-> err,
                        transaction |-> NoneRec, remaining_attempts |-> NoneInt]
  IN
  IF mandate_id \notin DOMAIN store THEN fail(store, "Invalid mandate or OTP expired")
  ELSE LET otp_data == store[mandate_id] IN
  IF otp_data.user_id # user_id THEN fail(store, "Invalid user for this OTP")
  ELSE IF is_expired(otp_data) THEN fail(Del(store, mandate_id), "OTP has expired")
  ELSE IF is_blocked(otp_data)
       THEN fail(Del(store, mandate_id), "Too many failed attempts. OTP blocked.")
  ELSE LET counted == increment_attempts(otp_data) IN
  IF counted.max_attempts - counted.attempts <= 0
  THEN fail(Del(store, mandate_id), "Maximum OTP attempts exceeded")
  ELSE IF counted.otp = otp_code
  THEN LET p == process_payment(txns, mandate_id, counted, n) IN
       [store |-> Del(store, mandate_id), txns |-> p.txns, status |-> "completed",
        error |-> None, transaction |-> p.transaction, remaining_attempts |-> NoneInt]
  ELSE [store |-> [store EXCEPT ![mandate_id] = counted], txns |-> txns,
        status |-> "invalid_otp", error |-> "Invalid OTP code",
        transaction |-> NoneRec,
        remaining_attempts |-> counted.max_attempts - counted.attempts]

\* verify_otp that does not test the expiry
verify_otp_eff_ignores_expiry(store, txns, mandate_id, otp_code, user_id, n) ==
  LET fail(st, err) == [store |-> st, txns |-> txns, status |-> "raised", error |-> err,
                        transaction |-> NoneRec, remaining_attempts |-> NoneInt]
  IN
  IF mandate_id \notin DOMAIN store THEN fail(store, "Invalid mandate or OTP expired")
  ELSE LET otp_data == store[mandate_id] IN
  IF otp_data.user_id # user_id THEN fail(store, "Invalid user for this OTP")
  ELSE IF is_blocked(otp_data)
       THEN fail(Del(store, mandate_id), "Too many failed attempts. OTP blocked.")
  ELSE LET counted == increment_attempts(otp_data) IN
  IF counted.otp = otp_code
  THEN LET p == process_payment(txns, mandate_id, counted, n) IN
       [store |-> Del(store, mandate_id), txns |-> p.txns, status |-> "completed",
        error |-> None, transaction |-> p.transaction, remaining_attempts |-> NoneInt]
  ELSE LET remaining_attempts == counted.max_attempts - counted.attempts IN
       IF remaining_attempts <= 0
       THEN fail(Del(store, mandate_id), "Maximum OTP attempts exceeded")
       ELSE [store |-> [store EXCEPT ![mandate_id] = counted], txns |-> txns,
             status |-> "invalid_otp", error |-> "Invalid OTP code",
             transaction |-> NoneRec, remaining_attempts |-> remaining_attempts]

\* verify_otp that tests the expiry before the user
verify_otp_eff_expiry_first(store, txns, mandate_id, otp_code, user_id, n) ==
  LET fail(st, err) == [store |-> st, txns |-> txns, status |-> "raised", error |-> err,
                        transaction |-> NoneRec, remaining_attempts |-> NoneInt]
  IN
  IF mandate_id \notin DOMAIN store THEN fail(store, "Invalid mandate or OTP expired")
  ELSE LET otp_data == store[mandate_id] IN
  IF is_expired(otp_data) THEN fail(Del(store, mandate_id), "OTP has expired")
  ELSE IF otp_data.user_id # user_id THEN fail(store, "Invalid user for this OTP")
  ELSE IF is_blocked(otp_data)
       THEN fail(Del(store, mandate_id), "Too many failed attempts. OTP blocked.")
  ELSE LET counted == increment_attempts(otp_data) IN
  IF counted.otp = otp_code
  THEN LET p == process_payment(txns, mandate_id, counted, n) IN
       [store |-> Del(store, mandate_id), txns |-> p.txns, status |-> "completed",
        error |-> None, transaction |-> p.transaction, remaining_attempts |-> NoneInt]
  ELSE LET remaining_attempts == counted.max_attempts - counted.attempts IN
       IF remaining_attempts <= 0
       THEN fail(Del(store, mandate_id), "Maximum OTP attempts exceeded")
       ELSE [store |-> [store EXCEPT ![mandate_id] = counted], txns |-> txns,
             status |-> "invalid_otp", error |-> "Invalid OTP code",
             transaction |-> NoneRec, remaining_attempts |-> remaining_attempts]

\* [store, txns, status, error, transaction, remaining_attempts]
verify_otp_eff(store, txns, mandate_id, otp_code, user_id, n) ==
  LET fail(st, err) == [store |-> st, txns |-> txns, status |-> "raised", error |-> err,
                        transaction |-> NoneRec, remaining_attempts |-> NoneInt]
  IN
  IF mandate_id \notin DOMAIN store THEN fail(store, "Invalid mandate or OTP expired")
  ELSE LET otp_data == store[mandate_id] IN
  IF otp_data.user_id # user_id THEN fail(store, "Invalid user for this OTP")
  ELSE IF is_expired(otp_data) THEN fail(Del(store, mandate_id), "OTP has expired")
  ELSE IF is_blocked(otp_data)
       THEN fail(Del(store, mandate_id), "Too many failed attempts. OTP blocked.")
  ELSE LET counted == increment_attempts(otp_data) IN
  IF counted.otp = otp_code
  THEN LET p == process_payment(txns, mandate_id, counted, n) IN
       [store |-> Del(store, mandate_id), txns |-> p.txns, status |-> "completed",
        error |-> None, transaction |-> p.transaction, remaining_attempts |-> NoneInt]
  ELSE LET remaining_attempts == counted.max_attempts - counted.attempts IN
       IF remaining_attempts <= 0
       THEN fail(Del(store, mandate_id), "Maximum OTP attempts exceeded")
       ELSE [store |-> [store EXCEPT ![mandate_id] = counted], txns |-> txns,
             status |-> "invalid_otp", error |-> "Invalid OTP code",
             transaction |-> NoneRec, remaining_attempts |-> remaining_attempts]

VerifyResult(op, mandate_id, otp_code, user_id, r) ==
  IF r.status = "completed"
  THEN [Res(op, mandate_id, "completed", None)
          EXCEPT !.user_id = user_id, !.otp_input = otp_code,
                 !.transaction_id = r.transaction.transaction_id,
                 !.amount = r.transaction.amount,
                 !.currency = r.transaction.currency]
  ELSE [Res(op, mandate_id, r.status, r.error)
          EXCEPT !.user_id = user_id, !.otp_input = otp_code,
                 !.remaining_attempts = r.remaining_attempts]

\* result.arg.otp_data is the record the call found under mandate_id
verify_otp(mandate_id, otp_code, user_id) ==
  LET r == verify_otp_eff(otp_store, transactions, mandate_id, otp_code, user_id, nextTxn) IN
  /\ r.status = "completed" => nextTxn <= MaxTxns
  /\ otp_store' = r.store
  /\ transactions' = r.txns
  /\ nextTxn' = IF r.status = "completed" THEN nextTxn + 1 ELSE nextTxn
  /\ UNCHANGED <<refunds, nextRefund>>
  /\ result' = [VerifyResult("verify_otp", mandate_id, otp_code, user_id, r)
                  EXCEPT !.arg = [otp_data |-> IF mandate_id \in DOMAIN otp_store
                                               THEN otp_store[mandate_id] ELSE NoneRec]]
  /\ UNCHANGED <<now, cartVars, breakerVars, calls, mandateVars, credentialVars>>

\* verify_otp statement by statement, for calls in flight at the same time: the
\* method holds no lock, and its local variable otp_data refers to the stored object
verify_otp_call(c, mandate_id, otp_code, user_id) ==
  /\ calls[c].pc = "idle"
  /\ calls' = [calls EXCEPT ![c] = [Idle EXCEPT !.pc = "lookup", !.op = "verify_otp",
                                                !.id = mandate_id, !.otp_code = otp_code,
                                                !.user_id = user_id,
                                                !.compared = calls[c].compared]]
  /\ result' = [Res("verify_otp_call", mandate_id, "running", None)
                  EXCEPT !.user_id = user_id, !.otp_input = otp_code]
  /\ UNCHANGED <<now, cartVars, breakerVars, mandateVars, paymentVars, credentialVars>>

\* the calls after otp_data.increment_attempts(): every call in flight that holds
\* the object sees the new count
SharedOtpData(cs, mandate_id, otp_data) ==
  [c \in Callers |->
     IF cs[c].pc # "idle" /\ cs[c].op = "verify_otp" /\ cs[c].id = mandate_id
                          /\ cs[c].otp_data # NoneRec
     THEN [cs[c] EXCEPT !.otp_data = otp_data]
     ELSE cs[c]]

verify_otp_step(c) ==
  LET call == calls[c]
      mandate_id == call.id
      otp_data == call.otp_data
      return(outcome) == [calls EXCEPT ![c] = [call EXCEPT !.pc = "idle", !.outcome = outcome,
                                                           !.otp_data = NoneRec]]
      goto(pc) == [calls EXCEPT ![c] = [call EXCEPT !.pc = pc]]
      res(status, error) == [Res("verify_otp_step", mandate_id, status, error)
                               EXCEPT !.user_id = call.user_id, !.otp_input = call.otp_code]
      running == res("running", None)
      KeyError == res("raised", "OTP verification failed")
      \* del self.otp_store[mandate_id], then raise OTPError(error)
      del_and_raise(error) ==
        IF mandate_id \in DOMAIN otp_store
        THEN /\ otp_store' = Del(otp_store, mandate_id)
             /\ calls' = return("raised")
             /\ result' = res("raised", error)
        ELSE /\ otp_store' = otp_store
             /\ calls' = return("raised")
             /\ result' = KeyError
  IN
  /\ call.op = "verify_otp"
  /\ call.pc # "idle"
  /\ \/ /\ call.pc = "lookup"
        /\ IF mandate_id \notin DOMAIN otp_store
           THEN calls' = return("raised") /\ result' = res("raised", "Invalid mandate or OTP expired")
           ELSE calls' = goto("get") /\ result' = running
        /\ UNCHANGED <<otp_store, transactions, nextTxn, refunds, nextRefund>>
     \/ /\ call.pc = "get"
        /\ IF mandate_id \notin DOMAIN otp_store
           THEN calls' = return("raised") /\ result' = KeyError
           ELSE /\ calls' = [calls EXCEPT ![c] = [call EXCEPT !.pc = "user",
                                                              !.otp_data = otp_store[mandate_id]]]
                /\ result' = running
        /\ UNCHANGED <<otp_store, transactions, nextTxn, refunds, nextRefund>>
     \/ /\ call.pc = "user"
        /\ IF otp_data.user_id # call.user_id
           THEN calls' = return("raised") /\ result' = res("raised", "Invalid user for this OTP")
           ELSE calls' = goto("is_expired") /\ result' = running
        /\ UNCHANGED <<otp_store, transactions, nextTxn, refunds, nextRefund>>
     \/ /\ call.pc = "is_expired"
        /\ calls' = IF is_expired(otp_data) THEN goto("del_expired") ELSE goto("is_blocked")
        /\ result' = running
        /\ UNCHANGED <<otp_store, transactions, nextTxn, refunds, nextRefund>>
     \/ /\ call.pc = "del_expired"
        /\ del_and_raise("OTP has expired")
        /\ UNCHANGED <<transactions, nextTxn, refunds, nextRefund>>
     \/ /\ call.pc = "is_blocked"
        /\ calls' = IF is_blocked(otp_data) THEN goto("del_blocked") ELSE goto("increment")
        /\ result' = running
        /\ UNCHANGED <<otp_store, transactions, nextTxn, refunds, nextRefund>>
     \/ /\ call.pc = "del_blocked"
        /\ del_and_raise("Too many failed attempts. OTP blocked.")
        /\ UNCHANGED <<transactions, nextTxn, refunds, nextRefund>>
     \/ /\ call.pc = "increment"
        /\ LET counted == increment_attempts(otp_data) IN
           /\ calls' = SharedOtpData(goto("compare"), mandate_id, counted)
           /\ otp_store' = IF mandate_id \in DOMAIN otp_store
                           THEN [otp_store EXCEPT ![mandate_id] = counted]
                           ELSE otp_store
        /\ result' = running
        /\ UNCHANGED <<transactions, nextTxn, refunds, nextRefund>>
     \/ /\ call.pc = "compare"
        /\ calls' = [calls EXCEPT ![c] =
                       [call EXCEPT !.pc = IF otp_data.otp = call.otp_code
                                           THEN "del_verified" ELSE "remaining",
                                    !.compared = @ + 1]]
        /\ result' = running
        /\ UNCHANGED <<otp_store, transactions, nextTxn, refunds, nextRefund>>
     \/ /\ call.pc = "del_verified"
        /\ IF mandate_id \in DOMAIN otp_store
           THEN /\ otp_store' = Del(otp_store, mandate_id)
                /\ calls' = goto("process_payment")
                /\ result' = running
           ELSE /\ otp_store' = otp_store
                /\ calls' = return("raised")
                /\ result' = KeyError
        /\ UNCHANGED <<transactions, nextTxn, refunds, nextRefund>>
     \/ /\ call.pc = "process_payment"
        /\ nextTxn <= MaxTxns
        /\ LET p == process_payment(transactions, mandate_id, otp_data, nextTxn) IN
           /\ transactions' = p.txns
           /\ result' = [res("completed", None)
                           EXCEPT !.transaction_id = p.transaction.transaction_id,
                                  !.amount = p.transaction.amount,
                                  !.currency = p.transaction.currency]
        /\ nextTxn' = nextTxn + 1
        /\ calls' = return("completed")
        /\ UNCHANGED <<otp_store, refunds, nextRefund>>
     \/ /\ call.pc = "remaining"
        /\ LET remaining_attempts == otp_data.max_attempts - otp_data.attempts IN
           IF remaining_attempts <= 0
           THEN calls' = goto("del_exhausted") /\ result' = running
           ELSE /\ calls' = return("invalid_otp")
                /\ result' = [res("invalid_otp", "Invalid OTP code")
                                EXCEPT !.remaining_attempts = remaining_attempts]
        /\ UNCHANGED <<otp_store, transactions, nextTxn, refunds, nextRefund>>
     \/ /\ call.pc = "del_exhausted"
        /\ del_and_raise("Maximum OTP attempts exceeded")
        /\ UNCHANGED <<transactions, nextTxn, refunds, nextRefund>>
  /\ UNCHANGED <<now, cartVars, breakerVars, mandateVars, credentialVars>>

\* Transaction.mark_failed, called by the host on a stored transaction
mark_failed(transaction_id) ==
  /\ transaction_id \in DOMAIN transactions
  /\ transactions' = [transactions EXCEPT ![transaction_id].status = PaymentStatus("failed")]
  /\ result' = Res("mark_failed", transaction_id, "ok", None)
  /\ UNCHANGED <<now, cartVars, breakerVars, calls, mandateVars, otp_store, nextTxn, refunds, nextRefund, credentialVars>>

min(a, b) == IF a <= b THEN a ELSE b

RefundRequest(refund_id, transaction_id, amount, reason) ==
  [refund_id |-> refund_id,
   transaction_id |-> transaction_id,
   amount |-> amount,
   reason |-> reason,
   status |-> "completed",
   processed_at |-> now]

\* process_refund that records the requested amount as it is
process_refund_eff_unclamped(txns, rfnds, transaction_id, amount, reason, n) ==
  LET fail(err) == [refunds |-> rfnds, raised |-> TRUE,
                    error |-> "Refund processing failed: " \o err, ret |-> NoneRec]
  IN
  IF transaction_id \notin DOMAIN txns THEN fail("Transaction not found")
  ELSE IF txns[transaction_id].status # PaymentStatus("completed")
  THEN fail("Can only refund completed transactions")
  ELSE LET refund == RefundRequest(RefundId(n), transaction_id, amount, reason) IN
       [refunds |-> Put(rfnds, RefundId(n), refund), raised |-> FALSE, error |-> None,
        ret |-> [refund_id |-> RefundId(n), transaction_id |-> transaction_id,
                 amount |-> refund.amount, currency |-> txns[transaction_id].currency,
                 reason |-> reason, status |-> refund.status]]

\* process_refund that does not test the transaction's status
process_refund_eff_any_status(txns, rfnds, transaction_id, amount, reason, n) ==
  LET fail(err) == [refunds |-> rfnds, raised |-> TRUE,
                    error |-> "Refund processing failed: " \o err, ret |-> NoneRec]
  IN
  IF transaction_id \notin DOMAIN txns THEN fail("Transaction not found")
  ELSE LET refund == RefundRequest(RefundId(n), transaction_id,
                                   min(amount, txns[transaction_id].amount), reason) IN
       [refunds |-> Put(rfnds, RefundId(n), refund), raised |-> FALSE, error |-> None,
        ret |-> [refund_id |-> RefundId(n), transaction_id |-> transaction_id,
                 amount |-> refund.amount, currency |-> txns[transaction_id].currency,
                 reason |-> reason, status |-> refund.status]]

\* [refunds, raised, error, ret]: the refund store after the call and the dict returned
process_refund_eff(txns, rfnds, transaction_id, amount, reason, n) ==
  LET fail(err) == [refunds |-> rfnds, raised |-> TRUE,
                    error |-> "Refund processing failed: " \o err, ret |-> NoneRec]
  IN
  IF transaction_id \notin DOMAIN txns THEN fail("Transaction not found")
  ELSE IF txns[transaction_id].status # PaymentStatus("completed")
  THEN fail("Can only refund completed transactions")
  ELSE LET refund == RefundRequest(RefundId(n), transaction_id,
                                   min(amount, txns[transaction_id].amount), reason) IN
       [refunds |-> Put(rfnds, RefundId(n), refund), raised |-> FALSE, error |-> None,
        ret |-> [refund_id |-> RefundId(n), transaction_id |-> transaction_id,
                 amount |-> refund.amount, currency |-> txns[transaction_id].currency,
                 reason |-> reason, status |-> refund.status]]

process_refund(transaction_id, amount, reason) ==
  LET r == process_refund_eff(transactions, refunds, transaction_id, amount, reason, nextRefund) IN
  /\ ~r.raised => nextRefund <= MaxRefunds
  /\ refunds' = r.refunds
  /\ nextRefund' = IF r.raised THEN nextRefund ELSE nextRefund + 1
  /\ result' = [Res("process_refund", transaction_id, IF r.raised THEN "raised" ELSE "completed",
                    r.error)
                  EXCEPT !.arg = [amount |-> amount, reason |-> reason], !.ret = r.ret]
  /\ UNCHANGED <<now, cartVars, breakerVars, calls, mandateVars, otp_store, transactions, nextTxn, credentialVars>>

cleanup_expired_otps_eff(store) ==
  [x \in {k \in DOMAIN store : ~is_expired(store[k])} |-> store[x]]

cleanup_expired_otps ==
  /\ otp_store' = cleanup_expired_otps_eff(otp_store)
  /\ result' = [Res("cleanup_expired_otps", NoneId, "ok", None)
                  EXCEPT !.amount = Cardinality({k \in DOMAIN otp_store : is_expired(otp_store[k])})]
  /\ UNCHANGED <<now, cartVars, breakerVars, calls, mandateVars, transactions, nextTxn, refunds, nextRefund, credentialVars>>

\* --------------------------------------------- services/credential_provider.py
PaymentCredential(credential_id, user_id, brand, is_default, priority) ==
  [credential_id |-> credential_id,
   user_id |-> user_id,
   type |-> "card",
   brand |-> brand,
   is_default |-> is_default,
   priority |-> priority,
   supported_currencies |-> {"USD", "TWD"},
   max_transaction_amount |-> NoneInt,
   min_transaction_amount |-> 0,
   status |-> "active",
   expires_at |-> NoneInt]

\* the store __init__ leaves: a default Visa and a Mastercard for each demo user
init_demo_credentials ==
  LET demo == <<[user_id |-> "demo_user", brand |-> "Visa", is_default |-> TRUE, priority |-> 0],
                [user_id |-> "demo_user", brand |-> "Mastercard", is_default |-> FALSE, priority |-> 1],
                [user_id |-> "test_user", brand |-> "Visa", is_default |-> TRUE, priority |-> 0],
                [user_id |-> "test_user", brand |-> "Mastercard", is_default |-> FALSE, priority |-> 1]>>
  IN [c \in {CredId(n) : n \in 1..4} |->
        LET d == demo[c[2]] IN PaymentCredential(c, d.user_id, d.brand, d.is_default, d.priority)]

PaymentCredential_is_valid(credential) ==
  IF credential.status # "active" THEN FALSE
  ELSE IF credential.expires_at # NoneInt /\ now > credential.expires_at THEN FALSE
  ELSE TRUE

supports_transaction(credential, amount, currency) ==
  IF ~PaymentCredential_is_valid(credential) THEN FALSE
  ELSE IF currency \notin credential.supported_currencies THEN FALSE
  ELSE IF amount < credential.min_transaction_amount THEN FALSE
  ELSE IF credential.max_transaction_amount \notin {NoneInt, 0}
          /\ amount > credential.max_transaction_amount THEN FALSE
  ELSE TRUE

\* a token that records the first mandate instead of the mandate it is issued for
PaymentToken_unbound(token_id, credential, mandate_id, amount, currency, expires_in_minutes) ==
  [token_id |-> token_id,
   credential_id |-> credential.credential_id,
   user_id |-> credential.user_id,
   mandate_id |-> MandateId(1),
   token_type |-> "single_use",
   amount |-> amount,
   currency |-> currency,
   expires_at |-> now + expires_in_minutes,
   consumed |-> FALSE]

PaymentToken(token_id, credential, mandate_id, amount, currency, expires_in_minutes) ==
  [token_id |-> token_id,
   credential_id |-> credential.credential_id,
   user_id |-> credential.user_id,
   mandate_id |-> mandate_id,
   token_type |-> "single_use",
   amount |-> amount,
   currency |-> currency,
   expires_at |-> now + expires_in_minutes,
   consumed |-> FALSE]

PaymentToken_is_valid(token) == ~token.consumed /\ ~(now > token.expires_at)

PaymentToken_consume(token) == [token EXCEPT !.consumed = TRUE]

\* self._user_credentials[user_id]: the user's credential ids in the order they were
\* registered; the n-th credential registered is CredId(n) and none is ever removed
RECURSIVE user_credentials_up_to(_, _, _)
user_credentials_up_to(creds, user_id, n) ==
  IF n = 0 THEN <<>>
  ELSE LET earlier == user_credentials_up_to(creds, user_id, n - 1) IN
       IF CredId(n) \in DOMAIN creds /\ creds[CredId(n)].user_id = user_id
       THEN Append(earlier, CredId(n))
       ELSE earlier

user_credentials(creds, user_id) ==
  user_credentials_up_to(creds, user_id, Cardinality(DOMAIN creds))

\* register_credential that leaves the user's earlier default in place
register_credential_eff_keep_defaults(creds, credential_id, user_id, brand, is_default, supported_currencies) ==
  LET credential == [PaymentCredential(credential_id, user_id, brand, is_default,
                                       Len(user_credentials(creds, user_id)))
                       EXCEPT !.supported_currencies =
                                IF supported_currencies = {} THEN {"USD", "TWD"}
                                ELSE supported_currencies]
  IN [creds |-> Put(creds, credential_id, credential), credential |-> credential]

\* [creds, credential]: the store after the call and the credential returned
register_credential_eff(creds, credential_id, user_id, brand, is_default, supported_currencies) ==
  LET credential_ids == user_credentials(creds, user_id)
      listed == {credential_ids[i] : i \in 1..Len(credential_ids)}
      unset == IF is_default /\ listed # {}
               THEN [c \in DOMAIN creds |->
                       IF c \in listed THEN [creds[c] EXCEPT !.is_default = FALSE] ELSE creds[c]]
               ELSE creds
      credential == [PaymentCredential(credential_id, user_id, brand, is_default,
                                       Len(user_credentials(creds, user_id)))
                       EXCEPT !.supported_currencies =
                                IF supported_currencies = {} THEN {"USD", "TWD"}
                                ELSE supported_currencies]
  IN [creds |-> Put(unset, credential_id, credential), credential |-> credential]

register_credential(user_id, brand, is_default, supported_currencies) ==
  LET credential_id == CredId(Cardinality(DOMAIN credentials) + 1)
      r == register_credential_eff(credentials, credential_id, user_id, brand, is_default,
                                   supported_currencies)
  IN
  /\ Cardinality(DOMAIN credentials) < MaxCredentials
  /\ credentials' = r.creds
  /\ result' = [Res("register_credential", credential_id, "credential", None)
                  EXCEPT !.user_id = user_id,
                         !.arg = [is_default |-> is_default],
                         !.ret = r.credential]
  /\ UNCHANGED <<now, cartVars, breakerVars, calls, mandateVars, paymentVars, tokens, nextToken>>

get_user_credentials(creds, user_id) ==
  LET credential_ids == user_credentials(creds, user_id) IN
  [i \in 1..Len(credential_ids) |-> creds[credential_ids[i]]]

\* the sort key (not c.is_default, -c.priority); False sorts before True
sort_key_priority_only(c) == <<0, 0 - c.priority>>

sort_key(c) == <<IF c.is_default THEN 0 ELSE 1, 0 - c.priority>>

\* tuple comparison key(a) < key(b)
key_less(a, b) ==
  \/ sort_key(a)[1] < sort_key(b)[1]
  \/ sort_key(a)[1] = sort_key(b)[1] /\ sort_key(a)[2] < sort_key(b)[2]

\* list.sort is stable: an element goes after the elements whose key is not greater
RECURSIVE insert_sorted(_, _)
insert_sorted(sorted, c) ==
  IF sorted = <<>> THEN <<c>>
  ELSE IF key_less(c, Head(sorted)) THEN <<c>> \o sorted
  ELSE <<Head(sorted)>> \o insert_sorted(Tail(sorted), c)

RECURSIVE sort(_)
sort(list) ==
  IF list = <<>> THEN <<>>
  ELSE insert_sorted(sort(SubSeq(list, 1, Len(list) - 1)), list[Len(list)])

get_eligible_methods_ret(creds, user_id, amount, currency, merchant_accepted_types) ==
  LET keep(cred) == /\ supports_transaction(cred, amount, currency)
                    /\ merchant_accepted_types # {} => cred.type \in merchant_accepted_types
  IN sort(SelectSeq(get_user_credentials(creds, user_id), keep))

get_eligible_methods(user_id, amount, currency, merchant_accepted_types) ==
  /\ result' = [Res("get_eligible_methods", NoneId, "list", None)
                  EXCEPT !.user_id = user_id, !.amount = amount, !.currency = currency,
                         !.arg = [merchant_accepted_types |-> merchant_accepted_types],
                         !.ret = [eligible |-> get_eligible_methods_ret(
                                     credentials, user_id, amount, currency,
                                     merchant_accepted_types)]]
  /\ UNCHANGED <<now, cartVars, breakerVars, calls, mandateVars, paymentVars, credentialVars>>

\* str.lower() that returns its argument unchanged
lower_unchanged(str) == str

\* str.lower() on the brands and hints used
lower(str) ==
  CASE str \in {"Visa", "visa", "VISA"} -> "visa"
    [] str \in {"Mastercard", "MASTERCARD", "mastercard"} -> "mastercard"
    [] str \in {"JCB", "jcb"} -> "jcb"
    [] str \in {"Amex", "amex"} -> "amex"
    [] OTHER -> str

\* the credential returned, NoneRec for None; preference_hints is NoneRec when not given
select_optimal_method_ret(creds, user_id, amount, currency, merchant_accepted_types, preference_hints) ==
  LET eligible == get_eligible_methods_ret(creds, user_id, amount, currency,
                                           merchant_accepted_types)
      preferred_brand == IF preference_hints = NoneRec THEN None
                         ELSE preference_hints.preferred_brand
      matching == {i \in 1..Len(eligible) : lower(eligible[i].brand) = lower(preferred_brand)}
  IN IF eligible = <<>> THEN NoneRec
     ELSE IF preferred_brand \notin {None, ""} /\ matching # {}
     THEN eligible[CHOOSE i \in matching : \A j \in matching : i <= j]
     ELSE eligible[1]

select_optimal_method(user_id, amount, currency, merchant_accepted_types, preference_hints) ==
  /\ result' = [Res("select_optimal_method", NoneId, "credential", None)
                  EXCEPT !.user_id = user_id, !.amount = amount, !.currency = currency,
                         !.arg = [merchant_accepted_types |-> merchant_accepted_types,
                                  preference_hints |-> preference_hints],
                         !.ret = select_optimal_method_ret(
                                   credentials, user_id, amount, currency,
                                   merchant_accepted_types, preference_hints)]
  /\ UNCHANGED <<now, cartVars, breakerVars, calls, mandateVars, paymentVars, credentialVars>>

deactivate_credential(credential_id) ==
  /\ credentials' = IF credential_id \in DOMAIN credentials
                    THEN [credentials EXCEPT ![credential_id].status = "suspended"]
                    ELSE credentials
  /\ result' = Res("deactivate_credential", credential_id,
                   IF credential_id \in DOMAIN credentials THEN "true" ELSE "false", None)
  /\ UNCHANGED <<now, cartVars, breakerVars, calls, mandateVars, paymentVars, tokens, nextToken>>

issue_payment_token(credential_id, mandate_id, amount, currency, expires_in_minutes) ==
  IF credential_id \notin DOMAIN credentials
     \/ ~supports_transaction(credentials[credential_id], amount, currency)
  THEN /\ result' = [Res("issue_payment_token", NoneId, "none", None)
                        EXCEPT !.arg = [mandate_id |-> mandate_id]]
       /\ UNCHANGED <<now, cartVars, breakerVars, calls, mandateVars, paymentVars, credentialVars>>
  ELSE /\ nextToken <= MaxTokens
       /\ tokens' = Put(tokens, TokenId(nextToken),
                        PaymentToken(TokenId(nextToken), credentials[credential_id],
                                     mandate_id, amount, currency, expires_in_minutes))
       /\ nextToken' = nextToken + 1
       /\ result' = [Res("issue_payment_token", TokenId(nextToken), "token", None)
                        EXCEPT !.arg = [mandate_id |-> mandate_id]]
       /\ UNCHANGED <<now, cartVars, breakerVars, calls, mandateVars, paymentVars, credentials>>

validate_token_ret(token_id) ==
  IF token_id \notin DOMAIN tokens THEN FALSE ELSE PaymentToken_is_valid(tokens[token_id])

validate_token(token_id) ==
  /\ result' = Res("validate_token", token_id,
                   IF validate_token_ret(token_id) THEN "true" ELSE "false", None)
  /\ UNCHANGED <<now, cartVars, breakerVars, calls, mandateVars, paymentVars, credentialVars>>

\* consume_token without the token.consume() call
consume_token_eff_reusable(toks, creds, token_id) ==
  IF token_id \notin DOMAIN toks THEN [tokens |-> toks, ret |-> NoneRec]
  ELSE IF ~PaymentToken_is_valid(toks[token_id]) THEN [tokens |-> toks, ret |-> NoneRec]
  ELSE IF toks[token_id].credential_id \notin DOMAIN creds THEN [tokens |-> toks, ret |-> NoneRec]
  ELSE [tokens |-> toks,
        ret |-> [credential_id |-> toks[token_id].credential_id,
                 token_id |-> token_id,
                 mandate_id |-> toks[token_id].mandate_id,
                 amount |-> toks[token_id].amount,
                 currency |-> toks[token_id].currency]]

\* [tokens, ret]: the token store after the call; ret is the dict returned, or NoneRec
consume_token_eff(toks, creds, token_id) ==
  IF token_id \notin DOMAIN toks THEN [tokens |-> toks, ret |-> NoneRec]
  ELSE IF ~PaymentToken_is_valid(toks[token_id]) THEN [tokens |-> toks, ret |-> NoneRec]
  ELSE IF toks[token_id].credential_id \notin DOMAIN creds THEN [tokens |-> toks, ret |-> NoneRec]
  ELSE [tokens |-> [toks EXCEPT ![token_id] = PaymentToken_consume(@)],
        ret |-> [credential_id |-> toks[token_id].credential_id,
                 token_id |-> token_id,
                 mandate_id |-> toks[token_id].mandate_id,
                 amount |-> toks[token_id].amount,
                 currency |-> toks[token_id].currency]]

consume_token(token_id) ==
  LET r == consume_token_eff(tokens, credentials, token_id) IN
  /\ tokens' = r.tokens
  /\ result' = IF r.ret = NoneRec
               THEN Res("consume_token", token_id, "none", None)
               ELSE [Res("consume_token", token_id, "payload", None)
                       EXCEPT !.amount = r.ret.amount, !.currency = r.ret.currency,
                              !.ret = r.ret]
  /\ UNCHANGED <<now, cartVars, breakerVars, calls, mandateVars, paymentVars, credentials, nextToken>>

\* consume_token statement by statement, for calls in flight at the same time: the
\* method holds no lock, and its local variable token refers to the stored object
consume_token_call(c, token_id) ==
  /\ calls[c].pc = "idle"
  /\ calls' = [calls EXCEPT ![c] = [Idle EXCEPT !.pc = "get", !.op = "consume_token",
                                                !.id = token_id,
                                                !.compared = calls[c].compared]]
  /\ result' = Res("consume_token_call", token_id, "running", None)
  /\ UNCHANGED <<now, cartVars, breakerVars, mandateVars, paymentVars, credentialVars>>

consume_token_step(c) ==
  LET call == calls[c]
      token_id == call.id
      return(outcome) == [calls EXCEPT ![c] = [call EXCEPT !.pc = "idle", !.outcome = outcome]]
      goto(pc) == [calls EXCEPT ![c] = [call EXCEPT !.pc = pc]]
  IN
  /\ call.op = "consume_token"
  /\ call.pc # "idle"
  /\ \/ /\ call.pc = "get"
        /\ calls' = IF token_id \in DOMAIN tokens THEN goto("is_valid") ELSE return("none")
        /\ tokens' = tokens
     \/ /\ call.pc = "is_valid"
        /\ calls' = IF PaymentToken_is_valid(tokens[token_id])
                    THEN goto("credential") ELSE return("none")
        /\ tokens' = tokens
     \/ /\ call.pc = "credential"
        /\ calls' = IF tokens[token_id].credential_id \in DOMAIN credentials
                    THEN goto("consume") ELSE return("none")
        /\ tokens' = tokens
     \/ /\ call.pc = "consume"
        /\ calls' = goto("return")
        /\ tokens' = [tokens EXCEPT ![token_id] = PaymentToken_consume(@)]
     \/ /\ call.pc = "return"
        /\ calls' = return("payload")
        /\ tokens' = tokens
  /\ result' = Res("consume_token_step", token_id,
                   IF calls'[c].pc = "idle" THEN calls'[c].outcome ELSE "running", None)
  /\ UNCHANGED <<now, cartVars, breakerVars, mandateVars, paymentVars, credentials, nextToken>>

\* ----------------------------------------------------- tools/shopping_tools.py
\* items is the content of the user's cart, as create_cart_mandate_data returns it
enhanced_create_cart_mandate(user_id, items, expires_in_minutes) ==
  IF items = <<>>
  THEN /\ result' = Res("enhanced_create_cart_mandate", NoneId, "error", "Cart is empty")
       /\ UNCHANGED <<now, cartVars, breakerVars, calls, mandateVars, paymentVars, credentialVars>>
  ELSE /\ create_signed_mandate(user_id, items, "USD", expires_in_minutes)

\* ------------------------------------------------------ tools/payment_tools.py
\* enhanced_initiate_payment without the validity test of the mandate
enhanced_initiate_payment_eff_unchecked(am, sigs, store, last, mandate_id, payment_method_id, user_id, otp_code, nonce) ==
  LET failed(a, err) == [am |-> a, store |-> store, status |-> "failed", error |-> err,
                         signed |-> FALSE]
      payment == initiate_payment_eff(store, mandate_id, payment_method_id, user_id, otp_code)
  IN
  IF payment.raised
  THEN failed(am, payment.error)
  ELSE LET user_signed == user_sign_mandate_eff(am, mandate_id, user_id, nonce) IN
       [am |-> update_mandate_status_eff(user_signed.am, mandate_id, PlainStr("pending_otp")),
        store |-> payment.store,
        status |-> "pending_otp",
        error |-> None,
        signed |-> ~user_signed.raised]

\* [am, store, status, error, otp_code, signed]: the stores after the call and the JSON returned
enhanced_initiate_payment_eff(am, sigs, store, last, mandate_id, payment_method_id, user_id, otp_code, nonce) ==
  LET failed(a, err) == [am |-> a, store |-> store, status |-> "failed", error |-> err,
                         signed |-> FALSE]
      unexpected(a) == failed(a, "Payment initiation failed: AttributeError")
      details == get_mandate_details_eff(am, sigs, mandate_id)
  IN
  IF details.raised THEN unexpected(details.am)
  ELSE LET valid == is_mandate_valid_eff(details.am, mandate_id) IN
  IF valid.raised THEN unexpected(valid.am)
  ELSE IF ~valid.ret
  THEN IF mandate_id \notin DOMAIN valid.am
       THEN LET user_mandates == get_user_mandates_eff(valid.am, user_id, 1, last, 0) IN
            IF user_mandates.raised THEN unexpected(user_mandates.am)
            ELSE failed(user_mandates.am, "mandate_not_found")
       ELSE failed(valid.am, "mandate_invalid")
  ELSE LET again == get_mandate_details_eff(valid.am, sigs, mandate_id) IN
  IF again.raised THEN unexpected(again.am)
  ELSE IF "error" \in DOMAIN again.ret THEN failed(again.am, "Mandate not found")
  ELSE LET payment == initiate_payment_eff(store, mandate_id, payment_method_id,
                                           user_id, otp_code) IN
  IF payment.raised
  THEN failed(again.am, payment.error)
  ELSE LET user_signed == user_sign_mandate_eff(again.am, mandate_id, user_id, nonce) IN
       [am |-> update_mandate_status_eff(user_signed.am, mandate_id, PlainStr("pending_otp")),
        store |-> payment.store,
        status |-> "pending_otp",
        error |-> None,
        signed |-> ~user_signed.raised]

enhanced_initiate_payment(mandate_id, payment_method_id, user_id) ==
  \E otp_code \in OtpCodes :
    LET r == enhanced_initiate_payment_eff(active_mandates, mandate_signatures, otp_store,
                                           nextMandate - 1, mandate_id, payment_method_id,
                                           user_id, otp_code, nextNonce) IN
    /\ r.signed => nextNonce <= MaxNonces
    /\ active_mandates' = r.am
    /\ otp_store' = r.store
    /\ nextNonce' = IF r.signed THEN nextNonce + 1 ELSE nextNonce
    /\ result' = IF r.status = "failed"
                 THEN [Res("enhanced_initiate_payment", mandate_id, "failed", r.error)
                         EXCEPT !.user_id = user_id]
                 ELSE [Res("enhanced_initiate_payment", mandate_id, r.status, None)
                         EXCEPT !.user_id = user_id, !.otp_code = otp_code]
    /\ UNCHANGED <<now, cartVars, breakerVars, calls, mandate_signatures, nextMandate, transactions, nextTxn, refunds, nextRefund, credentialVars>>

enhanced_verify_otp(mandate_id, otp_code, user_id) ==
  LET r == verify_otp_eff(otp_store, transactions, mandate_id, otp_code, user_id, nextTxn) IN
  /\ r.status = "completed" => nextTxn <= MaxTxns
  /\ otp_store' = r.store
  /\ transactions' = r.txns
  /\ nextTxn' = IF r.status = "completed" THEN nextTxn + 1 ELSE nextTxn
  /\ UNCHANGED <<refunds, nextRefund>>
  /\ active_mandates' =
       IF r.status = "completed"
       THEN update_mandate_status_eff(active_mandates, mandate_id, PlainStr("completed"))
       ELSE active_mandates
  /\ result' = VerifyResult("enhanced_verify_otp", mandate_id, otp_code, user_id,
                            IF r.status = "raised" THEN [r EXCEPT !.status = "failed"] ELSE r)
  /\ UNCHANGED <<now, cartVars, breakerVars, calls, mandate_signatures, nextMandate, nextNonce, credentialVars>>

cleanup_expired_data ==
  LET expired_mandates == {k \in DOMAIN active_mandates : is_expired(active_mandates[k])} IN
  /\ otp_store' = cleanup_expired_otps_eff(otp_store)
  /\ active_mandates' = cleanup_expired_mandates_eff(active_mandates)
  /\ mandate_signatures' =
       [x \in (DOMAIN mandate_signatures) \ expired_mandates |-> mandate_signatures[x]]
  /\ result' = Res("cleanup_expired_data", NoneId, "ok", None)
  /\ UNCHANGED <<now, cartVars, breakerVars, calls, nextMandate, nextNonce, transactions, nextTxn, refunds, nextRefund, credentialVars>>

\* --------------------------------------------------------- models/product.py
\* prices in cents
init_demo_products ==
  [id \in {"prod_001", "prod_003"} |->
     IF id = "prod_001"
     THEN [id |-> id, name |-> "iPhone 15 Pro", price |-> 99900, stock |-> 10]
     ELSE [id |-> id, name |-> "AirPods Pro (2nd generation)", price |-> 24900, stock |-> 15]]

ShoppingCartItem(product_id, product_name, price, quantity, subtotal) ==
  [product_id |-> product_id, product_name |-> product_name, price |-> price,
   quantity |-> quantity, subtotal |-> subtotal]

\* max(1, new_quantity) is the quantity stored
update_quantity(item, new_quantity) ==
  LET quantity == IF new_quantity >= 1 THEN new_quantity ELSE 1 IN
  [item EXCEPT !.quantity = quantity, !.subtotal = item.price * quantity]

ShoppingCart(user_id) == [user_id |-> user_id, items |-> <<>>]

\* sum(item.subtotal for item in self.items)
total_amount(items) ==
  LET RECURSIVE sum(_, _)
      sum(list, i) == IF i > Len(list) THEN 0 ELSE list[i].subtotal + sum(list, i + 1)
  IN sum(items, 1)

\* the index of the first item with this product_id, 0 when there is none
IndexOf(items, product_id) ==
  LET found == {i \in 1..Len(items) : items[i].product_id = product_id}
  IN IF found = {} THEN 0 ELSE CHOOSE i \in found : \A j \in found : i <= j

\* ShoppingCart.add_item that appends without looking for the product in the cart
add_item_eff_always_append(items, product, quantity) ==
  IF quantity < 1 THEN [items |-> items, raised |-> TRUE, ret |-> FALSE]
  ELSE [items |-> Append(items, ShoppingCartItem(product.id, product.name, product.price,
                                                 quantity, product.price * quantity)),
        raised |-> FALSE, ret |-> TRUE]

\* [items, raised, ret]: raised is the ValidationError of quantity < 1 on a new item
add_item_eff(items, product, quantity) ==
  LET i == IndexOf(items, product.id) IN
  IF i # 0
  THEN [items |-> [items EXCEPT ![i] = update_quantity(@, @.quantity + quantity)],
        raised |-> FALSE, ret |-> TRUE]
  ELSE IF quantity < 1 THEN [items |-> items, raised |-> TRUE, ret |-> FALSE]
  ELSE [items |-> Append(items, ShoppingCartItem(product.id, product.name, product.price,
                                                 quantity, product.price * quantity)),
        raised |-> FALSE, ret |-> TRUE]

remove_item_eff(items, product_id) ==
  LET i == IndexOf(items, product_id) IN
  IF i = 0 THEN [items |-> items, ret |-> FALSE]
  ELSE [items |-> SubSeq(items, 1, i - 1) \o SubSeq(items, i + 1, Len(items)), ret |-> TRUE]

update_item_quantity_eff(items, product_id, quantity) ==
  LET i == IndexOf(items, product_id) IN
  IF i = 0 THEN [items |-> items, ret |-> FALSE]
  ELSE IF quantity <= 0 THEN remove_item_eff(items, product_id)
  ELSE [items |-> [items EXCEPT ![i] = update_quantity(@, quantity)], ret |-> TRUE]

CartResult(op, product_id, quantity, status) ==
  [Res(op, NoneId, status, None) EXCEPT !.arg = [product_id |-> product_id, quantity |-> quantity]]

add_item(product, quantity) ==
  LET r == add_item_eff(cart.items, product, quantity) IN
  /\ \A i \in 1..Len(r.items) : r.items[i].quantity <= MaxQuantity
  /\ cart' = [cart EXCEPT !.items = r.items]
  /\ result' = CartResult("add_item", product.id, quantity,
                          IF r.raised THEN "raised" ELSE "true")
  /\ UNCHANGED <<now, calls, mandateVars, paymentVars, credentialVars, breakerVars>>

remove_item(product_id) ==
  LET r == remove_item_eff(cart.items, product_id) IN
  /\ cart' = [cart EXCEPT !.items = r.items]
  /\ result' = CartResult("remove_item", product_id, NoneInt,
                          IF r.ret THEN "true" ELSE "false")
  /\ UNCHANGED <<now, calls, mandateVars, paymentVars, credentialVars, breakerVars>>

update_item_quantity(product_id, quantity) ==
  LET r == update_item_quantity_eff(cart.items, product_id, quantity) IN
  /\ \A i \in 1..Len(r.items) : r.items[i].quantity <= MaxQuantity
  /\ cart' = [cart EXCEPT !.items = r.items]
  /\ result' = CartResult("update_item_quantity", product_id, quantity,
                          IF r.ret THEN "true" ELSE "false")
  /\ UNCHANGED <<now, calls, mandateVars, paymentVars, credentialVars, breakerVars>>

clear ==
  /\ cart' = [cart EXCEPT !.items = <<>>]
  /\ result' = CartResult("clear", None, NoneInt, "ok")
  /\ UNCHANGED <<now, calls, mandateVars, paymentVars, credentialVars, breakerVars>>

\* ------------------------------------------------- services/product_service.py
add_to_cart(product_id, quantity) ==
  IF product_id \notin DOMAIN init_demo_products
  THEN /\ result' = [CartResult("add_to_cart", product_id, quantity, "error")
                       EXCEPT !.error = "Product not found"]
       /\ UNCHANGED <<now, calls, mandateVars, paymentVars, credentialVars, cartVars, breakerVars>>
  ELSE LET product == init_demo_products[product_id]
           r == add_item_eff(cart.items, product, quantity)
       IN IF ~(product.stock > 0)
          THEN /\ result' = [CartResult("add_to_cart", product_id, quantity, "error")
                               EXCEPT !.error = "Product out of stock"]
               /\ UNCHANGED <<now, calls, mandateVars, paymentVars, credentialVars, cartVars, breakerVars>>
          ELSE IF product.stock < quantity
          THEN /\ result' = [CartResult("add_to_cart", product_id, quantity, "error")
                               EXCEPT !.error = "Insufficient stock"]
               /\ UNCHANGED <<now, calls, mandateVars, paymentVars, credentialVars, cartVars, breakerVars>>
          ELSE /\ \A i \in 1..Len(r.items) : r.items[i].quantity <= MaxQuantity
               /\ cart' = [cart EXCEPT !.items = r.items]
               /\ result' = CartResult("add_to_cart", product_id, quantity,
                                       IF r.raised THEN "raised" ELSE "success")
               /\ UNCHANGED <<now, calls, mandateVars, paymentVars, credentialVars, breakerVars>>

\* ----------------------------------------------------- common/retry_handler.py
\* time is time.time() in seconds; only the circuit breaker reads it
CircuitBreaker ==
  [state |-> "closed", failure_count |-> 0, success_count |-> 0, last_failure_time |-> 0]

\* CircuitBreaker.call that leaves OPEN at the next call, whatever time has passed
CircuitBreaker_call_eff_no_timeout(cb, t, func) ==
  LET entered == IF cb.state = "open"
                 THEN [cb EXCEPT !.state = "half_open", !.success_count = 0]
                 ELSE cb
  IN
  IF func = "returns"
  THEN [cb |-> IF entered.state = "half_open"
               THEN IF entered.success_count + 1 >= success_threshold
                    THEN [entered EXCEPT !.success_count = @ + 1, !.state = "closed",
                                         !.failure_count = 0]
                    ELSE [entered EXCEPT !.success_count = @ + 1]
               ELSE entered,
        outcome |-> "returned", invoked |-> TRUE]
  ELSE [cb |-> LET failed == [entered EXCEPT !.failure_count = @ + 1,
                                             !.last_failure_time = t]
               IN IF entered.state = "half_open" THEN [failed EXCEPT !.state = "open"]
                  ELSE IF failed.failure_count >= failure_threshold
                       THEN [failed EXCEPT !.state = "open"]
                  ELSE failed,
        outcome |-> "raised", invoked |-> TRUE]

\* [cb, outcome, invoked]: the breaker after the call, what the call did, and whether
\* the wrapped function was invoked; func tells what the wrapped function does
CircuitBreaker_call_eff(cb, t, func) ==
  LET entered == IF cb.state = "open" /\ t - cb.last_failure_time > timeout_seconds
                 THEN [cb EXCEPT !.state = "half_open", !.success_count = 0]
                 ELSE cb
  IN
  IF entered.state = "open"
  THEN [cb |-> cb, outcome |-> "CircuitBreakerError", invoked |-> FALSE]
  ELSE IF func = "returns"
  THEN [cb |-> IF entered.state = "half_open"
               THEN IF entered.success_count + 1 >= success_threshold
                    THEN [entered EXCEPT !.success_count = @ + 1, !.state = "closed",
                                         !.failure_count = 0]
                    ELSE [entered EXCEPT !.success_count = @ + 1]
               ELSE entered,
        outcome |-> "returned", invoked |-> TRUE]
  ELSE [cb |-> LET failed == [entered EXCEPT !.failure_count = @ + 1,
                                             !.last_failure_time = t]
               IN IF entered.state = "half_open" THEN [failed EXCEPT !.state = "open"]
                  ELSE IF failed.failure_count >= failure_threshold
                       THEN [failed EXCEPT !.state = "open"]
                  ELSE failed,
        outcome |-> "raised", invoked |-> TRUE]

CircuitBreaker_call(func) ==
  LET r == CircuitBreaker_call_eff(circuit_breaker, time, func) IN
  /\ r.outcome = "raised" => circuit_breaker.failure_count < MaxFailures
  /\ circuit_breaker' = r.cb
  /\ result' = [Res("call", NoneId, r.outcome, None)
                  EXCEPT !.arg = [func |-> func, invoked |-> r.invoked]]
  /\ UNCHANGED <<now, calls, mandateVars, paymentVars, credentialVars, cartVars, time>>

Elapse ==
  \E d \in {10, 15} :
    /\ time + d <= MaxClock
    /\ time' = time + d
    /\ result' = Res("Elapse", NoneId, "ok", None)
    /\ UNCHANGED <<now, calls, mandateVars, paymentVars, credentialVars, cartVars, circuit_breaker>>

Init ==
  /\ now = 0
  /\ active_mandates = EmptyMap
  /\ mandate_signatures = EmptyMap
  /\ nextMandate = 1
  /\ nextNonce = 1
  /\ otp_store = EmptyMap
  /\ transactions = EmptyMap
  /\ nextTxn = 1
  /\ refunds = EmptyMap
  /\ nextRefund = 1
  /\ credentials = init_demo_credentials
  /\ tokens = EmptyMap
  /\ nextToken = 1
  /\ result = Res("init", NoneId, "ok", None)
  /\ calls = [c \in Callers |-> Idle]
  /\ cart = ShoppingCart("demo_user")
  /\ circuit_breaker = CircuitBreaker
  /\ time = 0

Tick ==
  \E d \in TickMinutes :
    /\ now + d <= MaxTime
    /\ now' = now + d
    /\ result' = Res("Tick", NoneId, "ok", None)
    /\ UNCHANGED <<calls, mandateVars, paymentVars, credentialVars, cartVars, breakerVars>>

MandateIdInputs == {FakeMandateId} \cup {MandateId(n) : n \in 1..(nextMandate - 1)}
OtpKeyInputs == {MandateId(n) : n \in 1..MaxMandates}
TokenMandateInputs == {MandateId(1), MandateId(2)}

\* the mandate service on its own
NextMandate ==
  \/ \E u \in Users, items \in ItemLists, c \in Currencies, e \in ExpiresInChoices :
        create_cart_mandate(u, items, c, e)
  \/ \E u \in Users, items \in ItemLists, c \in Currencies, e \in ExpiresInChoices :
        create_signed_mandate(u, items, c, e)
  \/ \E m \in MandateIdInputs : merchant_sign_mandate(m, "demo_merchant")
  \/ \E m \in MandateIdInputs, u \in Users : user_sign_mandate(m, u)
  \/ \E m \in MandateIdInputs, s \in StatusInputs :
        update_mandate_status(m, PaymentStatus(s))
  \/ \E m \in MandateIdInputs : is_mandate_valid(m)
  \/ \E m \in MandateIdInputs : get_mandate_details(m)
  \/ \E u \in Users : get_user_mandates(u)
  \/ cleanup_expired_mandates
  \/ Tick

SpecMandate == Init /\ [][NextMandate]_vars

\* the signing of a cart mandate and the payment mandate derived from it
NextPaymentMandate ==
  \/ \E u \in Users, c \in Currencies, e \in ExpiresInChoices :
        create_cart_mandate(u, <<Widget>>, c, e)
  \/ \E m \in MandateIdInputs : merchant_sign_mandate(m, "demo_merchant")
  \/ \E m \in MandateIdInputs, u \in Users : user_sign_mandate(m, u)
  \/ \E m \in MandateIdInputs, pm \in PaymentMethodNames, t \in PaymentTokens :
        create_payment_mandate(m, pm, t)

SpecPaymentMandate == Init /\ [][NextPaymentMandate]_vars

\* the two sweeps, over mandates of every status and OTP records of two ages
NextCleanup ==
  \/ \E u \in Users, e \in ExpiresInChoices : create_signed_mandate(u, <<Widget>>, "USD", e)
  \/ \E m \in MandateIdInputs, s \in StatusInputs : update_mandate_status(m, PaymentStatus(s))
  \/ cleanup_expired_mandates
  \/ \E m \in TokenMandateInputs : initiate_payment(m, "card_001", "demo_user")
  \/ cleanup_expired_otps
  \/ Tick

SpecCleanup == Init /\ [][NextCleanup]_vars

\* the payment service on its own: it keys its stores by whatever mandate_id it is given
NextPayment ==
  \/ \E m \in OtpKeyInputs, pm \in MethodIds, u \in Users : initiate_payment(m, pm, u)
  \/ \E m \in OtpKeyInputs, c \in OtpCodes, u \in Users : verify_otp(m, c, u)
  \/ cleanup_expired_otps
  \/ Tick

SpecPayment == Init /\ [][NextPayment]_vars

CredentialIdInputs == {CredId(1), CredId(2), CredId(0)}
TokenIdInputs == {TokenId(n) : n \in 0..(nextToken - 1)}

\* the credential provider on its own
NextToken ==
  \/ \E c \in CredentialIdInputs, m \in TokenMandateInputs, a \in Amounts, cur \in TokenCurrencies,
        e \in TokenExpiresInChoices : issue_payment_token(c, m, a, cur, e)
  \/ \E t \in TokenIdInputs : validate_token(t)
  \/ \E t \in TokenIdInputs : consume_token(t)
  \/ \E c \in CredentialIdInputs : deactivate_credential(c)
  \/ Tick

SpecToken == Init /\ [][NextToken]_vars

PreferenceHints == {NoneRec} \cup {[preferred_brand |-> b] : b \in PreferredBrands}

\* the credential provider's registry and its selection of a payment method
NextCredential ==
  \/ \E u \in RegisterUsers, b \in RegisterBrands, d \in BOOLEAN, cur \in SupportedCurrencyInputs :
        register_credential(u, b, d, cur)
  \/ deactivate_credential(CredId(1))
  \/ \E u \in RegisterUsers, a \in Amounts, cur \in TokenCurrencies, t \in AcceptedTypeInputs :
        get_eligible_methods(u, a, cur, t)
  \/ \E u \in RegisterUsers, a \in Amounts, cur \in TokenCurrencies, t \in AcceptedTypeInputs,
        h \in PreferenceHints : select_optimal_method(u, a, cur, t, h)

SpecCredential == Init /\ [][NextCredential]_vars

Comparisons == calls["t1"].compared + calls["t2"].compared

\* the payment service with verify_otp calls in flight at the same time, all of them
\* against the last OTP record issued before the first comparison
NextVerifyRace ==
  \/ \E m \in OtpKeyInputs, u \in Users :
        /\ \A c \in Callers : calls[c].pc = "idle"
        /\ Comparisons = 0
        /\ initiate_payment(m, "card_001", u)
  \/ \E c \in Callers, m \in OtpKeyInputs, code \in OtpCodes, u \in Users :
        verify_otp_call(c, m, code, u)
  \/ \E c \in Callers : verify_otp_step(c)
  \/ Tick

SpecVerifyRace == Init /\ [][NextVerifyRace]_vars

TransactionIdInputs == {TxnId(n) : n \in 0..(nextTxn - 1)}

\* the payment service with its refunds
NextRefund ==
  \/ \E m \in OtpKeyInputs : initiate_payment(m, "card_001", "demo_user")
  \/ \E m \in OtpKeyInputs, c \in OtpCodes : verify_otp(m, c, "demo_user")
  \/ \E t \in TransactionIdInputs : mark_failed(t)
  \/ \E t \in TransactionIdInputs, a \in RefundAmounts : process_refund(t, a, "requested")

SpecRefund == Init /\ [][NextRefund]_vars

\* the payment service with one caller: verify_otp calls run to their end before
\* initiate_payment issues the next OTP record
NextReissue ==
  \/ \E m \in OtpKeyInputs, pm \in MethodIds, u \in Users :
        /\ \A c \in Callers : calls[c].pc = "idle"
        /\ initiate_payment(m, pm, u)
  \/ \E m \in OtpKeyInputs, code \in OtpCodes, u \in Users :
        /\ calls["t1"].compared < MaxComparisons
        /\ verify_otp_call("t1", m, code, u)
  \/ verify_otp_step("t1")
  \/ Tick

SpecReissue == Init /\ [][NextReissue]_vars

\* the credential provider with consume_token calls in flight at the same time
NextConsumeRace ==
  \/ \E m \in TokenMandateInputs, a \in Amounts, e \in TokenExpiresInChoices :
        issue_payment_token(CredId(1), m, a, "USD", e)
  \/ \E c \in Callers, t \in TokenIdInputs : consume_token_call(c, t)
  \/ \E c \in Callers : consume_token_step(c)
  \/ Tick

SpecConsumeRace == Init /\ [][NextConsumeRace]_vars

\* the tool layer the agents call, over the shared services
Next ==
  \/ \E u \in Users, items \in CartContents, e \in ExpiresInChoices :
        enhanced_create_cart_mandate(u, items, e)
  \/ \E m \in MandateIdInputs : merchant_sign_mandate(m, "demo_merchant")
  \/ \E m \in MandateIdInputs, s \in HostStatusInputs :
        update_mandate_status(m, PaymentStatus(s))
  \/ \E m \in MandateIdInputs, pm \in MethodIds, u \in Users :
        enhanced_initiate_payment(m, pm, u)
  \/ \E m \in MandateIdInputs, c \in OtpCodes, u \in Users : enhanced_verify_otp(m, c, u)
  \/ cleanup_expired_data
  \/ Tick

Spec == Init /\ [][Next]_vars

\* the payment flow through the tools alone, one call at a time, with the queries of
\* the mandate service
NextTools ==
  \/ \E u \in Users, items \in CartContents, e \in ExpiresInChoices :
        enhanced_create_cart_mandate(u, items, e)
  \/ \E m \in MandateIdInputs, pm \in MethodIds, u \in Users :
        enhanced_initiate_payment(m, pm, u)
  \/ \E m \in MandateIdInputs, c \in OtpCodes, u \in Users : enhanced_verify_otp(m, c, u)
  \/ \E m \in MandateIdInputs : is_mandate_valid(m)
  \/ \E m \in MandateIdInputs : get_mandate_details(m)
  \/ \E u \in Users : get_user_mandates(u)
  \/ cleanup_expired_data
  \/ Tick

SpecTools == Init /\ [][NextTools]_vars

\* calls through one circuit breaker, one at a time, while time passes
NextBreaker ==
  \/ \E func \in {"returns", "raises"} : CircuitBreaker_call(func)
  \/ Elapse

SpecBreaker == Init /\ [][NextBreaker]_vars

\* one user's shopping cart
NextCart ==
  \/ \E p \in DOMAIN init_demo_products, q \in AddQuantities :
        add_item(init_demo_products[p], q)
  \/ \E p \in ProductIdInputs, q \in AddQuantities : add_to_cart(p, q)
  \/ \E p \in ProductIdInputs, q \in UpdateQuantities : update_item_quantity(p, q)
  \/ \E p \in ProductIdInputs : remove_item(p)
  \/ clear

SpecCart == Init /\ [][NextCart]_vars

\* the mandate's life as the tools drive it, with its validity queried directly
NextValidity ==
  \/ \E u \in Users, items \in CartContents, e \in ExpiresInChoices :
        enhanced_create_cart_mandate(u, items, e)
  \/ \E m \in MandateIdInputs, pm \in MethodIds, u \in Users :
        enhanced_initiate_payment(m, pm, u)
  \/ \E m \in MandateIdInputs, s \in StatusInputs :
        update_mandate_status(m, PaymentStatus(s))
  \/ \E m \in MandateIdInputs : is_mandate_valid(m)
  \/ Tick

SpecValidity == Init /\ [][NextValidity]_vars

\* ===================================================================== claims

\* C1 (SpecMandate): merchant signs first. In every reachable state a mandate has a
\* user signature only if it has a merchant signature, and a user_sign_mandate call on
\* a stored mandate that is not merchant-signed raises and leaves user_signature and
\* payer_info unset.
C1_MerchantSignsFirst ==
  /\ \A m \in DOMAIN active_mandates :
       is_user_signed(active_mandates[m]) => is_merchant_signed(active_mandates[m])
  /\ (/\ result.op = "user_sign_mandate"
      /\ result.id \in DOMAIN active_mandates
      /\ ~is_merchant_signed(active_mandates[result.id]))
     => /\ result.status = "raised"
        /\ active_mandates[result.id].user_signature = NoneRec
        /\ active_mandates[result.id].payer_info = NoneRec

C1_Witness ==
  /\ result.op = "user_sign_mandate"
  /\ result.status = "raised"
  /\ result.error = "not merchant-signed"
  /\ result.id \in DOMAIN active_mandates
  /\ active_mandates[result.id].user_signature = NoneRec

\* C2 (Spec): every stored mandate's total_amount is the sum of its items' subtotals,
\* and no step changes the total_amount or the item list of a mandate that stays stored.
C2_TotalAmountFixed ==
  /\ [](\A m \in DOMAIN active_mandates :
          active_mandates[m].total_amount = calculate_total(active_mandates[m].items))
  /\ [][\A m \in (DOMAIN active_mandates) \cap (DOMAIN active_mandates') :
          /\ active_mandates'[m].total_amount = active_mandates[m].total_amount
          /\ active_mandates'[m].items = active_mandates[m].items]_vars

C2_Witness ==
  \E m \in DOMAIN active_mandates :
    /\ Len(active_mandates[m].items) = 2
    /\ active_mandates[m].total_amount = 1500
    /\ is_fully_signed(active_mandates[m])
    /\ active_mandates[m].status.value = "completed"

\* C3 (SpecToken): token single-use. A consumed token stays stored and consumed;
\* validate_token of a consumed token returns false; consume_token returns the
\* credential payload only for a token that was not consumed before the call, and
\* marks it consumed, so the payload of a token is returned at most once.
C3_TokenSingleUse ==
  /\ [](result.op = "validate_token" /\ result.id \in DOMAIN tokens
        /\ tokens[result.id].consumed => result.status = "false")
  /\ [][/\ \A t \in DOMAIN tokens :
             tokens[t].consumed => (t \in DOMAIN tokens' /\ tokens'[t].consumed)
        /\ (result'.op = "consume_token" /\ result'.status = "payload")
           => /\ result'.id \in DOMAIN tokens
              /\ ~tokens[result'.id].consumed
              /\ tokens'[result'.id].consumed
        /\ (result'.op = "consume_token" /\ result'.id \in DOMAIN tokens
            /\ tokens[result'.id].consumed)
           => result'.status = "none"]_vars

C3_Witness ==
  /\ result.op = "validate_token"
  /\ result.status = "false"
  /\ result.id \in DOMAIN tokens
  /\ tokens[result.id].consumed
  /\ ~(now > tokens[result.id].expires_at)

\* C4 (SpecPayment): OTP retry bound. A verify_otp call by the OTP's user with a wrong
\* code on an unexpired record that counts fewer than max_attempts - 1 attempts returns
\* invalid_otp and counts one attempt more; on a record that already counts
\* max_attempts - 1 attempts (the third wrong code, max_attempts being 3) it raises
\* "Maximum OTP attempts exceeded", deletes the record and creates no Transaction;
\* the next verify_otp call for that mandate_id, whatever its code, raises the
\* not-found error and creates no Transaction.
C4_OtpRetryBound ==
  [][/\ (/\ result'.op = "verify_otp"
         /\ result'.id \in DOMAIN otp_store
         /\ otp_store[result'.id].user_id = result'.user_id
         /\ ~is_expired(otp_store[result'.id])
         /\ otp_store[result'.id].attempts < max_otp_attempts - 1
         /\ otp_store[result'.id].otp # result'.otp_input)
        => /\ result'.status = "invalid_otp"
           /\ result'.id \in DOMAIN otp_store'
           /\ otp_store'[result'.id].attempts = otp_store[result'.id].attempts + 1
           /\ result'.remaining_attempts = max_otp_attempts - otp_store'[result'.id].attempts
           /\ transactions' = transactions
     /\ (/\ result'.op = "verify_otp"
         /\ result'.id \in DOMAIN otp_store
         /\ otp_store[result'.id].user_id = result'.user_id
         /\ ~is_expired(otp_store[result'.id])
         /\ otp_store[result'.id].attempts = max_otp_attempts - 1
         /\ otp_store[result'.id].otp # result'.otp_input)
        => /\ result'.status = "raised"
           /\ result'.error = "Maximum OTP attempts exceeded"
           /\ result'.id \notin DOMAIN otp_store'
           /\ transactions' = transactions
     /\ (/\ result.op = "verify_otp"
         /\ result.error = "Maximum OTP attempts exceeded"
         /\ result'.op = "verify_otp"
         /\ result'.id = result.id)
        => /\ result'.status = "raised"
           /\ result'.error = "Invalid mandate or OTP expired"
           /\ transactions' = transactions]_vars

C4_Witness ==
  /\ result.op = "verify_otp"
  /\ result.status = "raised"
  /\ result.error = "Maximum OTP attempts exceeded"
  /\ result.id \notin DOMAIN otp_store
  /\ transactions = EmptyMap

\* C5 (SpecPayment): OTP correct-code path. A verify_otp call that directly follows a
\* successful initiate_payment for the same mandate_id, with the code that call
\* returned and the same user, returns completed, adds exactly one Transaction, whose
\* status is completed and whose transaction_id differs from the mandate_id, and
\* deletes the OTP record.
C5_CorrectCodePath ==
  [][(/\ result.op = "initiate_payment"
      /\ result.status = "pending_otp"
      /\ result'.op = "verify_otp"
      /\ result'.id = result.id
      /\ result'.user_id = result.user_id
      /\ result'.otp_input = result.otp_code)
     => /\ result'.status = "completed"
        /\ result'.transaction_id \notin DOMAIN transactions
        /\ DOMAIN transactions' = (DOMAIN transactions) \cup {result'.transaction_id}
        /\ \A t \in DOMAIN transactions : transactions'[t] = transactions[t]
        /\ transactions'[result'.transaction_id].status = PaymentStatus("completed")
        /\ transactions'[result'.transaction_id].mandate_id = result.id
        /\ result'.transaction_id # result.id
        /\ result.id \notin DOMAIN otp_store']_vars

C5_Witness ==
  /\ result.op = "verify_otp"
  /\ result.status = "completed"
  /\ result.transaction_id \in DOMAIN transactions
  /\ transactions[result.transaction_id].status = PaymentStatus("completed")
  /\ result.id \notin DOMAIN otp_store
  /\ Cardinality(DOMAIN transactions) = 1

\* C6 (Spec): the Transaction of a successful OTP verification carries the amount and
\* the currency of the mandate that was paid, in the result returned and in the
\* transaction store.
C6_TransactionCarriesMandateAmount ==
  (/\ result.op = "enhanced_verify_otp"
   /\ result.status = "completed"
   /\ result.id \in DOMAIN active_mandates)
  => /\ result.amount = active_mandates[result.id].total_amount
     /\ result.currency = active_mandates[result.id].currency
     /\ transactions[result.transaction_id].amount = active_mandates[result.id].total_amount
     /\ transactions[result.transaction_id].currency = active_mandates[result.id].currency

\* C7 (SpecPayment): every OTP record in the OTP store has attempts <= max_attempts.
C7_AttemptsBounded ==
  \A m \in DOMAIN otp_store : otp_store[m].attempts <= otp_store[m].max_attempts

C7_Witness ==
  \E m \in DOMAIN otp_store :
    /\ otp_store[m].attempts = otp_store[m].max_attempts - 1
    /\ result.op = "verify_otp"
    /\ result.status = "invalid_otp"
    /\ result.remaining_attempts = 1

\* C8 (Spec): enhanced_initiate_payment for a mandate that is unknown, expired,
\* completed, failed or cancelled returns a failed result whose error is
\* mandate_not_found or mandate_invalid, and leaves the OTP store as it was. A mandate
\* is usable when it is stored, not expired, and its status is pending or pending_otp.
C8_UnusableMandateRejected ==
  [][LET usable == /\ result'.id \in DOMAIN active_mandates
                   /\ ~is_expired(active_mandates[result'.id])
                   /\ active_mandates[result'.id].status.value \in {"pending", "pending_otp"}
     IN (result'.op = "enhanced_initiate_payment" /\ ~usable)
        => /\ result'.status = "failed"
           /\ result'.error \in {"mandate_not_found", "mandate_invalid"}
           /\ otp_store' = otp_store]_vars

\* C9 (Spec): whenever enhanced_initiate_payment has succeeded and stored an OTP record,
\* the mandate it was called for carries a merchant signature.
C9_PaymentOnlyForSignedMandate ==
  (result.op = "enhanced_initiate_payment" /\ result.status = "pending_otp")
  => /\ result.id \in DOMAIN otp_store
     /\ result.id \in DOMAIN active_mandates
     /\ is_merchant_signed(active_mandates[result.id])

\* C10 (SpecMandate): a mandate returned by create_signed_mandate is merchant-signed and
\* not user-signed, and a mandate gets its user signature only in a step in which
\* user_sign_mandate succeeds.
C10_SignedAtCreation ==
  /\ []((result.op = "create_signed_mandate" /\ result.status = "ok")
        => /\ is_merchant_signed(active_mandates[result.id])
           /\ ~is_user_signed(active_mandates[result.id]))
  /\ [][\A m \in (DOMAIN active_mandates) \cap (DOMAIN active_mandates') :
          (~is_user_signed(active_mandates[m]) /\ is_user_signed(active_mandates'[m]))
          => (result'.op = "user_sign_mandate" /\ result'.status = "ok")]_vars

\* C11 (Spec): after enhanced_initiate_payment has succeeded for a stored mandate (made by
\* create_signed_mandate) on the call of the mandate's own user, the mandate is
\* user-signed, its payer_info is set and its status is pending_otp.
C11_UserSignedAtInitiation ==
  (/\ result.op = "enhanced_initiate_payment"
   /\ result.status = "pending_otp"
   /\ result.id \in DOMAIN active_mandates
   /\ result.user_id = active_mandates[result.id].user_id)
  => /\ is_user_signed(active_mandates[result.id])
     /\ active_mandates[result.id].payer_info # NoneRec
     /\ active_mandates[result.id].status.value = "pending_otp"

\* C12 (SpecValidity): once a stored mandate's expires_at has passed it stays passed, and
\* every is_mandate_valid call for that mandate returns false and leaves its status
\* expired, whatever was done to the mandate before the call.
C12_ExpiredStaysInvalid ==
  /\ []((/\ result.op = "is_mandate_valid"
         /\ result.id \in DOMAIN active_mandates
         /\ is_expired(active_mandates[result.id]))
        => /\ result.status = "false"
           /\ active_mandates[result.id].status = PaymentStatus("expired"))
  /\ [][\A m \in (DOMAIN active_mandates) \cap (DOMAIN active_mandates') :
          is_expired(active_mandates[m]) => now' > active_mandates'[m].expires_at]_vars

\* C13 (Spec): a mandate does not stay in pending_otp once its OTP flow has ended. After
\* an enhanced_verify_otp call that completed the payment the stored mandate's status
\* is completed; after one that ended the flow without success (the OTP record was
\* deleted because the attempts were used up or the OTP had expired) it is expired or
\* failed.
C13_OtpFlowEndSettlesStatus ==
  (result.op = "enhanced_verify_otp" /\ result.id \in DOMAIN active_mandates)
  => /\ result.status = "completed"
        => active_mandates[result.id].status.value = "completed"
     /\ result.error \in {"Maximum OTP attempts exceeded",
                          "Too many failed attempts. OTP blocked.",
                          "OTP has expired"}
        => active_mandates[result.id].status.value \in {"expired", "failed"}

\* C14 (SpecToken): a token is bound to the mandate it was issued for. The token stored by
\* issue_payment_token records the mandate_id the call was given, no step changes the
\* mandate_id, amount or currency of a stored token, and the only redemption, a
\* consume_token call that returns the payload, returns the mandate_id, amount and
\* currency recorded at issuance: a token issued for mandate A never yields a payload
\* for a different mandate B.
C14_TokenBoundToMandate ==
  [][/\ (result'.op = "issue_payment_token" /\ result'.status = "token")
        => /\ result'.id \notin DOMAIN tokens
           /\ tokens'[result'.id].mandate_id = result'.arg.mandate_id
     /\ \A t \in DOMAIN tokens :
          /\ t \in DOMAIN tokens'
          /\ tokens'[t].mandate_id = tokens[t].mandate_id
          /\ tokens'[t].amount = tokens[t].amount
          /\ tokens'[t].currency = tokens[t].currency
     /\ (result'.op = "consume_token" /\ result'.status = "payload")
        => /\ result'.ret.token_id = result'.id
           /\ result'.ret.mandate_id = tokens[result'.id].mandate_id
           /\ result'.ret.amount = tokens[result'.id].amount
           /\ result'.ret.currency = tokens[result'.id].currency]_vars

C14_Witness ==
  /\ result.op = "consume_token"
  /\ result.status = "payload"
  /\ result.ret.mandate_id = MandateId(2)
  /\ \E t \in DOMAIN tokens : tokens[t].mandate_id = MandateId(1) /\ ~tokens[t].consumed

\* C15 (SpecConsumeRace): consume_token is atomic. Whatever the interleaving of the
\* statements of two consume_token calls for the same token_id, at most one of the two
\* calls returns the credential payload.
C15_ConsumeAtomic ==
  \A c1 \in Callers, c2 \in Callers :
    ~(/\ c1 # c2
      /\ calls[c1].op = "consume_token"
      /\ calls[c2].op = "consume_token"
      /\ calls[c1].id = calls[c2].id
      /\ calls[c1].outcome = "payload"
      /\ calls[c2].outcome = "payload")


\* C16 (SpecVerifyRace): whatever the interleaving of the statements of two verify_otp
\* calls for the same mandate_id, at most one Transaction is created for an issued OTP
\* record and the codes compared against that record never number more than max_attempts.
C16_VerifyRaceBounded ==
  /\ Cardinality(DOMAIN transactions) <= 1
  /\ Comparisons <= max_otp_attempts


\* C17 (SpecCredential): after any sequence of register_credential calls, with any
\* is_default flags and for any users, at most one credential of a user has
\* is_default = true.
C17_OneDefaultPerUser ==
  \A u \in RegisterUsers \cup Users :
    Cardinality({c \in DOMAIN credentials :
                   credentials[c].user_id = u /\ credentials[c].is_default}) <= 1

\* a second default was registered for a user who had a default credential
C17_Witness ==
  /\ result.op = "register_credential"
  /\ result.arg.is_default
  /\ result.user_id = "demo_user"
  /\ credentials[result.id].is_default
  /\ ~credentials[CredId(1)].is_default


\* C18 (SpecCredential): get_eligible_methods returns exactly the user's credentials that
\* support the transaction and whose type the merchant accepts, each once, ordered
\* default-first and then by descending priority; an eligible default credential comes
\* before every eligible non-default credential, whatever their priorities.
C18_EligibleOrder ==
  result.op = "get_eligible_methods" =>
    LET eligible == result.ret.eligible
        accepted == result.arg.merchant_accepted_types
        expected == {c \in DOMAIN credentials :
                       /\ credentials[c].user_id = result.user_id
                       /\ supports_transaction(credentials[c], result.amount, result.currency)
                       /\ accepted # {} => credentials[c].type \in accepted}
    IN /\ {eligible[i].credential_id : i \in 1..Len(eligible)} = expected
       /\ Len(eligible) = Cardinality(expected)
       /\ \A i \in 1..Len(eligible) : eligible[i] = credentials[eligible[i].credential_id]
       /\ \A i \in 1..Len(eligible), j \in 1..Len(eligible) :
            i < j =>
              /\ eligible[j].is_default => eligible[i].is_default
              /\ eligible[i].is_default = eligible[j].is_default
                   => eligible[i].priority >= eligible[j].priority

\* the default credential of lowest priority was returned before two non-default
\* credentials of higher priority, and those two in descending priority
C18_Witness ==
  /\ result.op = "get_eligible_methods"
  /\ Len(result.ret.eligible) = 3
  /\ result.ret.eligible[1].is_default
  /\ result.ret.eligible[1].priority = 0
  /\ result.ret.eligible[2].priority = 2
  /\ result.ret.eligible[3].priority = 1


\* C19 (SpecCredential): select_optimal_method returns none when the user has no eligible
\* credential; when an eligible credential's brand equals preference_hints.preferred_brand
\* up to the case of the letters it returns such a credential, wherever it stands in the
\* list; otherwise it returns the first entry of get_eligible_methods, which is the
\* default credential when an eligible default exists.
C19_SelectOptimal ==
  result.op = "select_optimal_method" =>
    LET eligible == get_eligible_methods_ret(credentials, result.user_id, result.amount,
                                             result.currency, result.arg.merchant_accepted_types)
        \* brands that differ only in the case of their letters
        CaseClasses == {{"Visa", "visa", "VISA"}, {"Mastercard", "MASTERCARD", "mastercard"},
                        {"Amex", "amex"}}
        SameIgnoringCase(a, b) == a = b \/ \E k \in CaseClasses : a \in k /\ b \in k
        hints == result.arg.preference_hints
        preferred == IF hints = NoneRec THEN None ELSE hints.preferred_brand
        hinted == preferred \notin {None, ""}
        matches == {i \in 1..Len(eligible) : SameIgnoringCase(eligible[i].brand, preferred)}
    IN /\ eligible = <<>> => result.ret = NoneRec
       /\ eligible # <<>> /\ hinted /\ matches # {}
            => \E i \in matches : result.ret = eligible[i]
       /\ eligible # <<>> /\ ~(hinted /\ matches # {})
            => /\ result.ret = eligible[1]
               /\ (\E i \in 1..Len(eligible) : eligible[i].is_default) => result.ret.is_default

\* the hint MASTERCARD selected the non-default Mastercard although the default Visa
\* stands first in the list
C19_Witness ==
  /\ result.op = "select_optimal_method"
  /\ result.arg.preference_hints = [preferred_brand |-> "MASTERCARD"]
  /\ result.ret # NoneRec
  /\ result.ret.brand = "Mastercard"
  /\ ~result.ret.is_default
  /\ \E c \in DOMAIN credentials :
       /\ credentials[c].user_id = result.user_id
       /\ credentials[c].is_default
       /\ supports_transaction(credentials[c], result.amount, result.currency)


\* C20 (SpecReissue): a successful initiate_payment for a mandate_id that already has an
\* OTP record replaces the record with a fresh one: attempts is 0, the code is the one
\* this call generated, the lifetime starts now, the wrong attempts made against the old
\* record do not count (a wrong code leaves max_attempts - 1 attempts), and the store
\* holds the records of the same mandate_ids as before, the others unchanged.
C20_InitiateReplaces ==
  [][(/\ result'.op = "initiate_payment"
      /\ result'.status = "pending_otp"
      /\ result'.id \in DOMAIN otp_store)
     => LET mandate_id == result'.id
            fresh == otp_store'[mandate_id]
            wrong == CHOOSE code \in OtpCodes : code # fresh.otp
            retry == verify_otp_eff(otp_store', transactions', mandate_id, wrong,
                                    fresh.user_id, nextTxn')
        IN /\ fresh.attempts = 0
           /\ fresh.max_attempts = max_otp_attempts
           /\ fresh.otp = result'.otp_code
           /\ fresh.user_id = result'.user_id
           /\ fresh.mandate_id = mandate_id
           /\ fresh.expires_at = now' + otp_expiry_minutes
           /\ retry.status = "invalid_otp"
           /\ retry.remaining_attempts = max_otp_attempts - 1
           /\ DOMAIN otp_store' = DOMAIN otp_store
           /\ \A k \in DOMAIN otp_store \ {mandate_id} : otp_store'[k] = otp_store[k]]_vars

\* initiate_payment has just replaced a record against which two wrong codes had been
\* entered, the second of them at the time of the call
C20_Witness ==
  /\ result.op = "initiate_payment"
  /\ result.status = "pending_otp"
  /\ calls["t1"].pc = "idle"
  /\ calls["t1"].outcome = "invalid_otp"
  /\ calls["t1"].id = result.id
  /\ calls["t1"].compared = 2
  /\ otp_store[result.id].attempts = 0
  /\ otp_store[result.id].expires_at = now + otp_expiry_minutes


\* C21 (SpecPayment): initiate_payment with a payment_method_id that is not among the
\* user's payment methods fails with PaymentError and leaves the OTP store as it was,
\* the record already pending for that mandate_id included.
C21_InvalidMethodKeepsStore ==
  [][(/\ result'.op = "initiate_payment"
      /\ result'.arg.payment_method_id \notin payment_methods(result'.user_id))
     => /\ result'.status = "raised"
        /\ result'.error = "Payment initiation failed: Invalid payment method"
        /\ otp_store' = otp_store
        /\ transactions' = transactions]_vars

\* the failed call was for a mandate_id whose pending record had counted a wrong code
C21_Witness ==
  /\ result.op = "initiate_payment"
  /\ result.status = "raised"
  /\ result.arg.payment_method_id = "card_999"
  /\ result.id \in DOMAIN otp_store
  /\ otp_store[result.id].attempts = 1


\* C22 (SpecRefund): process_refund on a completed transaction with a requested amount
\* greater than the transaction's amount succeeds and records and returns a refund of the
\* transaction's amount; every stored refund has an amount no greater than the amount of
\* its transaction.
C22_RefundClamped ==
  /\ \A r \in DOMAIN refunds :
       /\ refunds[r].transaction_id \in DOMAIN transactions
       /\ refunds[r].amount <= transactions[refunds[r].transaction_id].amount
  /\ (/\ result.op = "process_refund"
      /\ result.id \in DOMAIN transactions
      /\ transactions[result.id].status = PaymentStatus("completed")
      /\ result.arg.amount > transactions[result.id].amount)
     => /\ result.status = "completed"
        /\ result.ret.amount = transactions[result.id].amount
        /\ result.ret.refund_id \in DOMAIN refunds
        /\ refunds[result.ret.refund_id].amount = transactions[result.id].amount
        /\ refunds[result.ret.refund_id].transaction_id = result.id

\* twice the amount of a completed transaction was requested and its amount refunded
C22_Witness ==
  /\ result.op = "process_refund"
  /\ result.status = "completed"
  /\ result.arg.amount = 2 * DemoAmount
  /\ result.ret.amount = DemoAmount
  /\ refunds[result.ret.refund_id].amount = DemoAmount


\* C23 (SpecRefund): process_refund fails when the transaction_id is unknown or the
\* transaction's status is not completed; the failed call stores no refund record and
\* leaves the transaction store unchanged.
C23_RefundRejected ==
  [][(/\ result'.op = "process_refund"
      /\ \/ result'.id \notin DOMAIN transactions
         \/ transactions[result'.id].status # PaymentStatus("completed"))
     => /\ result'.status = "raised"
        /\ result'.error = IF result'.id \notin DOMAIN transactions
                           THEN "Refund processing failed: Transaction not found"
                           ELSE "Refund processing failed: Can only refund completed transactions"
        /\ result'.ret = NoneRec
        /\ refunds' = refunds
        /\ transactions' = transactions]_vars

\* a refund was refused for a transaction the host had marked failed after an earlier
\* refund of it
C23_Witness ==
  /\ result.op = "process_refund"
  /\ result.status = "raised"
  /\ result.id \in DOMAIN transactions
  /\ transactions[result.id].status = PaymentStatus("failed")
  /\ \E r \in DOMAIN refunds : refunds[r].transaction_id = result.id
  /\ nextRefund = 2


\* C24 (SpecMandate): create_cart_mandate called with an empty items list fails with a
\* validation error and stores no mandate.
C24_EmptyCartRejected ==
  [][(result'.op = "create_cart_mandate" /\ result'.arg.items = <<>>)
     => /\ result'.status = "raised"
        /\ result'.error = "ValidationError"
        /\ active_mandates' = active_mandates]_vars


\* C25 (SpecMandate): user_sign_mandate called with a user_id that is not the mandate's
\* user_id, or with an unknown mandate_id, fails and leaves the mandate store unchanged,
\* so that the mandate's user_signature and payer_info stay as they were.
C25_ForeignSignRejected ==
  [][(/\ result'.op = "user_sign_mandate"
      /\ \/ result'.id \notin DOMAIN active_mandates
         \/ active_mandates[result'.id].user_id # result'.user_id)
     => /\ result'.status = "raised"
        /\ active_mandates' = active_mandates
        /\ mandate_signatures' = mandate_signatures]_vars

\* another user tried to sign a merchant-signed mandate, which is still without
\* user_signature and payer_info
C25_Witness ==
  /\ result.op = "user_sign_mandate"
  /\ result.status = "raised"
  /\ result.error = "User ID mismatch"
  /\ result.id \in DOMAIN active_mandates
  /\ active_mandates[result.id].user_id # result.user_id
  /\ is_merchant_signed(active_mandates[result.id])
  /\ active_mandates[result.id].user_signature = NoneRec
  /\ active_mandates[result.id].payer_info = NoneRec


\* C26 (SpecPaymentMandate): create_payment_mandate fails unless the cart mandate carries
\* both merchant_signature and user_signature; when it succeeds, the PaymentMandate's
\* cart_mandate_id is the cart mandate's id, agent_presence is true and
\* transaction_modality is human_present.
C26_PaymentMandateNeedsBothSignatures ==
  result.op = "create_payment_mandate" =>
    LET cart_mandate == result.arg.cart_mandate IN
    /\ (cart_mandate.merchant_signature = NoneRec \/ cart_mandate.user_signature = NoneRec)
         => result.status = "raised" /\ result.ret = NoneRec
    /\ result.status = "ok"
         => /\ cart_mandate.merchant_signature # NoneRec
            /\ cart_mandate.user_signature # NoneRec
            /\ result.ret.cart_mandate_id = cart_mandate.mandate_id
            /\ result.ret.agent_presence = TRUE
            /\ result.ret.transaction_modality = "human_present"

\* a payment mandate was created from a cart mandate signed by the merchant and the user
C26_Witness ==
  /\ result.op = "create_payment_mandate"
  /\ result.status = "ok"
  /\ is_fully_signed(result.arg.cart_mandate)
  /\ result.ret.cart_mandate_id = MandateId(1)


C28_ForeignVerifyLeavesRecord ==
  [][(/\ result'.op = "verify_otp"
      /\ result'.id \in DOMAIN otp_store
      /\ otp_store[result'.id].user_id # result'.user_id)
     => /\ result'.status = "raised"
        /\ result'.error = "Invalid user for this OTP"
        /\ otp_store' = otp_store
        /\ transactions' = transactions]_vars

\* another user supplied the right code for a record that has expired and had counted
\* a wrong code; the record is still stored
C28_Witness ==
  /\ result.op = "verify_otp"
  /\ result.error = "Invalid user for this OTP"
  /\ result.id \in DOMAIN otp_store
  /\ otp_store[result.id].user_id # result.user_id
  /\ otp_store[result.id].otp = result.otp_input
  /\ otp_store[result.id].attempts = 1
  /\ now > otp_store[result.id].expires_at


\* C29 (SpecPayment): verify_otp by the OTP's user on an expired record deletes the
\* record and fails with OTPError without creating a Transaction, even when the code
\* supplied is the right one; a verify_otp for that mandate_id that follows fails as
\* not found.
C29_ExpiredOtpDeleted ==
  [][/\ (/\ result'.op = "verify_otp"
         /\ result'.id \in DOMAIN otp_store
         /\ otp_store[result'.id].user_id = result'.user_id
         /\ now > otp_store[result'.id].expires_at)
        => /\ result'.status = "raised"
           /\ result'.error = "OTP has expired"
           /\ otp_store' = Del(otp_store, result'.id)
           /\ transactions' = transactions
           /\ \A code \in OtpCodes :
                verify_otp_eff(otp_store', transactions', result'.id, code,
                               result'.user_id, nextTxn').error
                  = "Invalid mandate or OTP expired"
     /\ (result'.op = "verify_otp" /\ result'.id \notin DOMAIN otp_store)
        => /\ result'.status = "raised"
           /\ result'.error = "Invalid mandate or OTP expired"
           /\ otp_store' = otp_store
           /\ transactions' = transactions]_vars

\* the record's user supplied the right code after the record had expired: the record is
\* gone and there is no Transaction
C29_Witness ==
  /\ result.op = "verify_otp"
  /\ result.error = "OTP has expired"
  /\ result.arg.otp_data.otp = result.otp_input
  /\ result.arg.otp_data.user_id = result.user_id
  /\ result.id \notin DOMAIN otp_store
  /\ transactions = EmptyMap


\* C30 (SpecPayment): verify_otp counts the attempt before it compares the codes. The
\* right code supplied by the OTP's user on an unexpired record that counts fewer than
\* max_attempts attempts completes the payment, also as the max_attempts-th counted
\* attempt (after max_attempts - 1 wrong codes); a call that returns the soft failure
\* invalid_otp has counted one attempt on the record it keeps, leaves
\* attempts < max_attempts, and returns remaining_attempts = max_attempts - attempts,
\* which is at least 1.
C30_CountedBeforeCompared ==
  [][/\ (/\ result'.op = "verify_otp"
         /\ result'.id \in DOMAIN otp_store
         /\ otp_store[result'.id].user_id = result'.user_id
         /\ ~is_expired(otp_store[result'.id])
         /\ otp_store[result'.id].attempts < otp_store[result'.id].max_attempts
         /\ otp_store[result'.id].otp = result'.otp_input)
        => /\ result'.status = "completed"
           /\ result'.transaction_id \in DOMAIN transactions' \ DOMAIN transactions
           /\ result'.id \notin DOMAIN otp_store'
     /\ (result'.op = "verify_otp" /\ result'.status = "invalid_otp")
        => /\ result'.id \in DOMAIN otp_store
           /\ otp_store[result'.id].otp # result'.otp_input
           /\ otp_store' = [otp_store EXCEPT ![result'.id] = increment_attempts(@)]
           /\ otp_store'[result'.id].attempts < otp_store'[result'.id].max_attempts
           /\ result'.remaining_attempts
                = otp_store'[result'.id].max_attempts - otp_store'[result'.id].attempts
           /\ result'.remaining_attempts >= 1
           /\ transactions' = transactions]_vars

\* the right code was accepted as the max_attempts-th counted attempt
C30_Witness ==
  /\ result.op = "verify_otp"
  /\ result.status = "completed"
  /\ result.arg.otp_data.attempts = max_otp_attempts - 1
  /\ result.arg.otp_data.otp = result.otp_input
  /\ result.transaction_id \in DOMAIN transactions
  /\ result.id \notin DOMAIN otp_store


\* C31 (SpecTools): through the tool layer, one call at a time, at most one Transaction
\* is ever created for a mandate_id: no two stored Transactions carry the same
\* mandate_id, and once a Transaction for a mandate is stored no enhanced_initiate_payment
\* or enhanced_verify_otp call for that mandate stores an OTP record or another
\* Transaction.
C31_OneTransactionPerMandate ==
  /\ [](\A t1 \in DOMAIN transactions, t2 \in DOMAIN transactions :
          transactions[t1].mandate_id = transactions[t2].mandate_id => t1 = t2)
  /\ [][(/\ result'.op \in {"enhanced_initiate_payment", "enhanced_verify_otp"}
         /\ \E t \in DOMAIN transactions : transactions[t].mandate_id = result'.id)
        => /\ result'.status = "failed"
           /\ transactions' = transactions
           /\ result'.id \notin DOMAIN otp_store']_vars

\* the mandate was paid, and a later enhanced_initiate_payment for it by its user with a
\* payment method of theirs has failed
C31_Witness ==
  /\ result.op = "enhanced_initiate_payment"
  /\ result.status = "failed"
  /\ result.id \in DOMAIN active_mandates
  /\ active_mandates[result.id].status.value = "completed"
  /\ active_mandates[result.id].user_id = result.user_id
  /\ \E t \in DOMAIN transactions : transactions[t].mandate_id = result.id


\* C32 (SpecTools): every Transaction created for a mandate carries the user_id of that
\* mandate: a user other than the mandate's owner obtains no OTP for the mandate and
\* completes no payment on it.
C32_TransactionUserIsMandateUser ==
  /\ [](\A t \in DOMAIN transactions :
          transactions[t].mandate_id \in DOMAIN active_mandates
            => transactions[t].user_id = active_mandates[transactions[t].mandate_id].user_id)
  /\ [](\A m \in DOMAIN otp_store :
          m \in DOMAIN active_mandates => otp_store[m].user_id = active_mandates[m].user_id)


\* C33 (SpecTools): no Transaction is created for a mandate whose expires_at has passed
\* when the OTP is verified: an enhanced_verify_otp call for a mandate that is stored
\* and expired, or that is no longer stored, does not complete and adds no Transaction.
C33_NoPaymentOnExpiredMandate ==
  [][(/\ result'.op = "enhanced_verify_otp"
      /\ \/ result'.id \notin DOMAIN active_mandates
         \/ is_expired(active_mandates[result'.id]))
     => /\ result'.status # "completed"
        /\ transactions' = transactions]_vars


C35_UserSignatureBoundToMerchantSignature ==
  \A m \in DOMAIN active_mandates :
    is_user_signed(active_mandates[m])
      => active_mandates[m].user_signature.merchant_signature
           = active_mandates[m].merchant_signature


\* C36 (SpecToken): credential status is enforced for the whole life of a token.
\* issue_payment_token tokenizes no suspended credential, and consume_token returns the
\* credential payload only while the token's credential is active, also when the
\* credential was deactivated after the token was issued.
C36_CredentialStatusEnforced ==
  [][/\ (result'.op = "issue_payment_token" /\ result'.status = "token")
        => credentials[tokens'[result'.id].credential_id].status = "active"
     /\ (result'.op = "consume_token" /\ result'.status = "payload")
        => credentials[tokens[result'.id].credential_id].status = "active"]_vars


\* C37 (SpecCart): after any sequence of add_item, update_item_quantity, remove_item and
\* clear on a shopping cart, every line item has quantity >= 1 and
\* subtotal = price * quantity, no two line items have the same product_id, and
\* total_amount is the sum of price * quantity over the line items.
C37_CartWellFormed ==
  LET RECURSIVE Sum(_, _)
      Sum(items, i) == IF i > Len(items) THEN 0
                       ELSE items[i].price * items[i].quantity + Sum(items, i + 1)
  IN /\ \A i \in 1..Len(cart.items) :
          /\ cart.items[i].quantity >= 1
          /\ cart.items[i].subtotal = cart.items[i].price * cart.items[i].quantity
     /\ \A i \in 1..Len(cart.items), j \in 1..Len(cart.items) :
          cart.items[i].product_id = cart.items[j].product_id => i = j
     /\ total_amount(cart.items) = Sum(cart.items, 1)

\* a product already in the cart was added again with a quantity that would bring the
\* line to zero, next to a second line item
C37_Witness ==
  /\ result.op = "add_item"
  /\ result.arg.quantity < 0
  /\ result.status = "true"
  /\ Len(cart.items) = 2
  /\ \E i \in 1..2 : /\ cart.items[i].product_id = result.arg.product_id
                     /\ cart.items[i].quantity = 1
  /\ \E i \in 1..2 : cart.items[i].quantity > 1


\* C38 (SpecBreaker): the circuit breaker protocol. While the state is OPEN and no more
\* than timeout_seconds have passed since the last failure, call raises
\* CircuitBreakerError without invoking the wrapped function and changes nothing; once
\* more time has passed the call runs in HALF_OPEN. In HALF_OPEN the success that brings
\* success_count to success_threshold closes the circuit and resets failure_count, an
\* earlier success keeps HALF_OPEN, and any failure re-opens the circuit. From CLOSED
\* the circuit opens only by a failure that brings failure_count to failure_threshold,
\* and a CLOSED circuit counts fewer failures than that.
C38_CircuitBreakerProtocol ==
  /\ [](circuit_breaker.state = "closed" => circuit_breaker.failure_count < failure_threshold)
  /\ [][LET cb == circuit_breaker
            waiting == cb.state = "open" /\ time - cb.last_failure_time <= timeout_seconds
            half_open == \/ cb.state = "half_open"
                         \/ cb.state = "open" /\ time - cb.last_failure_time > timeout_seconds
            successes == IF cb.state = "open" THEN 1 ELSE cb.success_count + 1
        IN result'.op = "call" =>
             /\ waiting => /\ result'.status = "CircuitBreakerError"
                           /\ ~result'.arg.invoked
                           /\ circuit_breaker' = cb
             /\ ~waiting => result'.arg.invoked
             /\ (half_open /\ result'.arg.func = "returns")
                  => /\ circuit_breaker'.success_count = successes
                     /\ IF successes >= success_threshold
                        THEN /\ circuit_breaker'.state = "closed"
                             /\ circuit_breaker'.failure_count = 0
                        ELSE /\ circuit_breaker'.state = "half_open"
                             /\ circuit_breaker'.failure_count = cb.failure_count
             /\ (half_open /\ result'.arg.func = "raises")
                  => /\ circuit_breaker'.state = "open"
                     /\ circuit_breaker'.last_failure_time = time
             /\ cb.state = "closed"
                  => /\ circuit_breaker'.state # "half_open"
                     /\ circuit_breaker'.state = "open"
                          <=> /\ result'.arg.func = "raises"
                              /\ cb.failure_count + 1 = failure_threshold
                     /\ circuit_breaker'.failure_count
                          = IF result'.arg.func = "raises" THEN cb.failure_count + 1
                            ELSE cb.failure_count]_vars

\* the circuit was opened, waited for, and closed again by success_threshold successes
C38_Witness ==
  /\ result.op = "call"
  /\ result.status = "returned"
  /\ circuit_breaker.state = "closed"
  /\ circuit_breaker.success_count = success_threshold
  /\ circuit_breaker.failure_count = 0
  /\ time - circuit_breaker.last_failure_time > timeout_seconds
====
